---- MODULE Spec2Model ----
(***************************************************************************)
(* Rewire: the Store (db.py), the rule engine (rules.py), the Checker      *)
(* thread and the HTTP handlers (server.py), as one state machine.         *)
(*                                                                         *)
(* Every Store call is one SQLite statement in autocommit mode             *)
(* (isolation_level=None, db.py:118), so a Store call is one atomic step   *)
(* and the steps of the Checker thread and of the request threads          *)
(* interleave freely between Store calls.                                  *)
(***************************************************************************)
EXTENDS Integers, Sequences, FiniteSets, TLC

----------------------------------------------------------------------------
(* Bounds of the model *)

\* the clock stops advancing here
MaxTime == 61
\* rows the observations table may hold when POST /observe adds one
MaxObs == 1
\* the amounts by which the clock advances between steps
ClockSteps == {30, 31}
\* the GET /ack request threads
Ackers == {"a1"}
\* two GET /ack request threads at once
AckPair == {"a1", "a2"}
\* rows the observations table may hold when a POST /observe thread starts
MaxPosts == 2
\* the POST /observe request threads
Posters == {"p1", "p2"}
\* the kind fields their forms carry, and a path naming no expectation
PostKinds == {"start", "bogus"}
UnknownId == "unknown"
\* the admin requests and Store.create_expectation calls of a run
MaxAdmin == 2
\* the tokens secrets.token_urlsafe(16) draws for new expectations
IdPool == {"n1", "n2"}
\* the Authorization headers of admin requests: none; one that is not a
\* Bearer header; Bearer with another ASCII token; Bearer with a token that
\* has a non-ASCII character; Bearer with the admin token, bare and padded
\* with blanks
AuthHeaders == {"none", "basic", "wrong", "nonascii", "token", "padded"}
\* the fields of the forms of /admin/new and the arguments of
\* Store.create_expectation
FormTypes == {"schedule", "alert_path", "bogus"}
FormIntervals == {59, 60}
FormTolerances == {-1, 0}
\* the longest beacon log a job has left when the rule engine is examined,
\* and the seconds its beacons arrived at
MaxRuleLog == 4
RuleTimes == {0, 10, 50}
\* the most POST /observe requests that arrive between two steps of the
\* Checker
MaxBurst == 80
\* the direct calls of Store.recent_observations of a run, and their limit
\* arguments
MaxRecent == 2
RecentLimits == {1, 2, 3}

----------------------------------------------------------------------------
(* Program constants *)

\* SQL NULL / Python None in an integer column
NULL == -1
\* limit of recent_observations in Checker._check_schedule
ObsLimit == 80
\* --renotify-after default
RenotifyAfter == 0

\* CHECK(expected_interval_s >= 60) of the schema
MinInterval == 60

Kinds == {"start", "end", "ping", "ack"}
\* CHECK(type IN ('schedule', 'alert_path')) of the schema
Types == {"schedule", "alert_path"}
Codes == {"missed", "longrun", "overlap", "spacing", "no_ack"}

\* Rows of the expectations table as /admin/new stores them, with the columns
\* the handlers and the Checker read: a schedule and an alert_path contract.  expected_interval_s is the least value the
\* schema admits; the schedule's params_json leaves allow_overlap out.
ScheduleRow ==
    [id |-> "e1", type |-> "schedule",
     expected_interval_s |-> 60, tolerance_s |-> 0,
     params_json |-> [max_runtime_s |-> 30, min_spacing_s |-> 31],
     is_enabled |-> TRUE]

AlertPathRow ==
    [id |-> "e2", type |-> "alert_path",
     expected_interval_s |-> 60, tolerance_s |-> 0,
     params_json |-> [ack_window_s |-> 30, test_interval_s |-> 31],
     is_enabled |-> TRUE]

\* A schedule contract of a job that may run for less than a clock step
QuickRow ==
    [id |-> "e3", type |-> "schedule",
     expected_interval_s |-> 60, tolerance_s |-> 0,
     params_json |-> [max_runtime_s |-> 29],
     is_enabled |-> TRUE]

\* A schedule contract that only constrains spacing and overlap
\* (max_runtime_s and allow_overlap left out of params_json)
SpacingRow(min_spacing_s) ==
    [id |-> "e4", type |-> "schedule",
     expected_interval_s |-> 60, tolerance_s |-> 0,
     params_json |-> [min_spacing_s |-> min_spacing_s],
     is_enabled |-> TRUE]

\* A schedule contract with the given params_json
EvalRow(params_json) ==
    [id |-> "e4", type |-> "schedule",
     expected_interval_s |-> 60, tolerance_s |-> 0,
     params_json |-> params_json,
     is_enabled |-> TRUE]

\* the params_json of the schedule contracts the rule engine is examined
\* on: every constraint set, every constraint disabled, and one key only
ParamChoices ==
    {[max_runtime_s |-> 5, min_spacing_s |-> 50, allow_overlap |-> FALSE],
     [max_runtime_s |-> 0, min_spacing_s |-> 0, allow_overlap |-> TRUE],
     [max_runtime_s |-> 5], [min_spacing_s |-> 50], [allow_overlap |-> TRUE]}

\* the min_spacing_s such contracts declare
SpacingChoices == {41, 100}

\* values of --renotify-after: the default and half a minute
RenotifyChoices == {RenotifyAfter, 30}

\* the kinds POST /observe/{id} is called with, by the type of the contract
ObserveKinds(type) ==
    IF type = "schedule" THEN {"start", "end", "ping"} ELSE {"ack"}

----------------------------------------------------------------------------
VARIABLES
    clock,      \* time.time() in whole seconds
    exps,       \* expectations table, in rowid order
    obs,        \* observations table, in rowid order
    trials,     \* alert_trials table, in rowid order; a trial's id is its index
    viols,      \* violations table, in rowid order
    pc,         \* Checker thread: where it is
    snap,       \* Checker.tick: exps
    idx,        \* Checker.tick: position of the for loop over exps
    now,        \* Checker.tick: now
    cobs,       \* _check_schedule: obs
    evalT,      \* schedule_evaluate: t
    closeCodes, \* _check_schedule: close_codes
    todo,       \* _check_schedule: violations
    tidx,       \* _check_schedule: position of the for loop over violations
    pend,       \* _check_alertpath: pending
    pidx,       \* _check_alertpath: position of the for loop over pending
    vid,        \* id of the violation _notify_violation is called for
    ackedBefore,\* history: trials acknowledged when the running tick started
    movedTrial, \* history: the trial the newest expire_trial call of the pass moved
                \* from pending to expired (0: none)
    acks,       \* GET /ack request threads
    posts,      \* POST /observe request threads
    cfg,        \* Config of the running server
    twin,       \* a second Checker instance on the same Store: its locals
    got,        \* the newest direct call of Store.recent_observations and
                \* the rows it returned
    admin,      \* the newest POST /admin/... request and its answer
    audit,      \* created_at, updated_at of the expectations created since
                \* the initial state, by id
    stop,       \* main: stop_evt is set
    mainpc,     \* main thread: where it is
    srv         \* socketserver.BaseServer: __shutdown_request, __is_shut_down

storeVars == <<exps, obs, trials, viols>>
chkVars == <<pc, snap, idx, now, cobs, evalT, closeCodes, todo, tidx, pend,
             pidx, vid, ackedBefore,
                   movedTrial>>
\* the stop event, the main thread and the server object it serves
mainVars == <<stop, mainpc, srv>>
\* the admin requests and the audit columns they write, and the second
\* Checker instance
adminVars == <<admin, audit, twin, got>>
\* what the request threads hold, the configuration they share, and the
\* main thread
reqVars == <<acks, posts, cfg, mainVars, adminVars>>
vars == <<clock, exps, obs, trials, viols, pc, snap, idx, now, cobs, evalT,
          closeCodes, todo, tidx, pend, pidx, vid, ackedBefore, movedTrial,
          acks, posts,
          cfg, admin, audit, twin, got, stop, mainpc, srv>>

Min(a, b) == IF a < b THEN a ELSE b

----------------------------------------------------------------------------
(* rules.py *)

\* parse_params: missing schedule keys default to 0 / False
ParseParams(exp_type, params_json) ==
    IF exp_type = "schedule"
    THEN [max_runtime_s |-> IF "max_runtime_s" \in DOMAIN params_json
                            THEN params_json.max_runtime_s ELSE 0,
          min_spacing_s |-> IF "min_spacing_s" \in DOMAIN params_json
                            THEN params_json.min_spacing_s ELSE 0,
          allow_overlap |-> IF "allow_overlap" \in DOMAIN params_json
                            THEN params_json.allow_overlap ELSE FALSE]
    ELSE [ack_window_s |-> params_json.ack_window_s,
          test_interval_s |-> params_json.test_interval_s]

\* "missed" part of schedule_evaluate; starts is the start rows, newest first
EvalMissed(exp_row, starts, t) ==
    LET expected == exp_row.expected_interval_s
        tol == exp_row.tolerance_s
        age == t - starts[1].observed_at
    IN  IF age > expected + tol
        THEN [violations |-> <<[code |-> "missed",
                                ev |-> [last_start_at |-> starts[1].observed_at,
                                        age_s |-> age,
                                        expected_s |-> expected,
                                        tolerance_s |-> tol]]>>,
              close_codes |-> <<>>]
        ELSE [violations |-> <<>>, close_codes |-> <<"missed">>]

\* EvalLongrun returning longrun as a code to close also when it opens it
EvalLongrunClosing(params, start_t, t) ==
    LET run_for == t - start_t
    IN  IF params.max_runtime_s # 0 /\ run_for > params.max_runtime_s
        THEN [violations |-> <<[code |-> "longrun",
                                ev |-> [start_at |-> start_t,
                                        running_for_s |-> run_for,
                                        max_runtime_s |-> params.max_runtime_s]]>>,
              close_codes |-> <<"longrun">>]
        ELSE [violations |-> <<>>, close_codes |-> <<"longrun">>]

\* "longrun" part, taken when no end is at or after the newest start
EvalLongrun(params, start_t, t) ==
    LET run_for == t - start_t
    IN  IF params.max_runtime_s # 0 /\ run_for > params.max_runtime_s
        THEN [violations |-> <<[code |-> "longrun",
                                ev |-> [start_at |-> start_t,
                                        running_for_s |-> run_for,
                                        max_runtime_s |-> params.max_runtime_s]]>>,
              close_codes |-> <<>>]
        ELSE [violations |-> <<>>, close_codes |-> <<"longrun">>]

\* EvalOverlap without "if not params.allow_overlap"
EvalOverlapAlways(params, starts, start_t) ==
    IF Len(starts) > 1 /\ starts[2].observed_at < start_t
    THEN [violations |-> <<[code |-> "overlap",
                            ev |-> [newest_start_at |-> start_t,
                                    other_start_at |-> starts[2].observed_at]]>>,
          close_codes |-> <<>>]
    ELSE [violations |-> <<>>, close_codes |-> <<"overlap">>]

\* "overlap" part, taken when no end is at or after the newest start
EvalOverlap(params, starts, start_t) ==
    IF params.allow_overlap
    THEN [violations |-> <<>>, close_codes |-> <<>>]
    ELSE IF Len(starts) > 1 /\ starts[2].observed_at < start_t
         THEN [violations |-> <<[code |-> "overlap",
                                 ev |-> [newest_start_at |-> start_t,
                                         other_start_at |-> starts[2].observed_at]]>>,
               close_codes |-> <<>>]
         ELSE [violations |-> <<>>, close_codes |-> <<"overlap">>]

\* EvalSpacing measuring the gap from the oldest earlier end
EvalSpacingOldestEnd(params, prev_ends, start_t) ==
    IF params.min_spacing_s # 0 /\ Len(prev_ends) > 0
    THEN LET prev_end_at == prev_ends[Len(prev_ends)].observed_at
             gap == start_t - prev_end_at
         IN  IF gap < params.min_spacing_s
             THEN [violations |-> <<[code |-> "spacing",
                                     ev |-> [gap_s |-> gap,
                                             min_spacing_s |-> params.min_spacing_s,
                                             prev_end_at |-> prev_end_at,
                                             start_at |-> start_t]]>>,
                   close_codes |-> <<>>]
             ELSE [violations |-> <<>>, close_codes |-> <<"spacing">>]
    ELSE [violations |-> <<>>, close_codes |-> <<>>]

\* "spacing" part, taken when an end is at or after the newest start
EvalSpacing(params, prev_ends, start_t) ==
    IF params.min_spacing_s # 0 /\ Len(prev_ends) > 0
    THEN LET gap == start_t - prev_ends[1].observed_at
         IN  IF gap < params.min_spacing_s
             THEN [violations |-> <<[code |-> "spacing",
                                     ev |-> [gap_s |-> gap,
                                             min_spacing_s |-> params.min_spacing_s,
                                             prev_end_at |-> prev_ends[1].observed_at,
                                             start_at |-> start_t]]>>,
                   close_codes |-> <<>>]
             ELSE [violations |-> <<>>, close_codes |-> <<"spacing">>]
    ELSE [violations |-> <<>>, close_codes |-> <<>>]

\* EvalNoStart taking the absence of a start for a start at time 0
EvalNoStartAsLate(exp_row, t) ==
    IF t > exp_row.expected_interval_s + exp_row.tolerance_s
    THEN [violations |-> <<[code |-> "missed",
                            ev |-> [last_start_at |-> 0, age_s |-> t,
                                    expected_s |-> exp_row.expected_interval_s,
                                    tolerance_s |-> exp_row.tolerance_s]]>>,
          close_codes |-> <<>>]
    ELSE [violations |-> <<>>, close_codes |-> <<"missed">>]

\* schedule_evaluate when last_start is None: both "if last_start:" are
\* skipped and the empty lists are returned
EvalNoStart(exp_row, t) ==
    [violations |-> <<>>, close_codes |-> <<>>]

\* schedule_evaluate(exp_row, obs_rows_desc), reading the clock as t
ScheduleEvaluate(exp_row, obs_rows_desc, t) ==
    LET params == ParseParams("schedule", exp_row.params_json)
        starts == SelectSeq(obs_rows_desc, LAMBDA r : r.kind = "start")
    IN  IF Len(starts) = 0
        THEN EvalNoStart(exp_row, t)
        ELSE
        LET start_t == starts[1].observed_at
            newer_ends == SelectSeq(obs_rows_desc,
                            LAMBDA r : r.kind = "end" /\ r.observed_at >= start_t)
            prev_ends == SelectSeq(obs_rows_desc,
                            LAMBDA r : r.kind = "end" /\ r.observed_at < start_t)
            missed == EvalMissed(exp_row, starts, t)
            longrun == EvalLongrun(params, start_t, t)
            overlap == EvalOverlap(params, starts, start_t)
            spacing == EvalSpacing(params, prev_ends, start_t)
        IN  IF Len(newer_ends) = 0
            THEN [violations |-> missed.violations \o longrun.violations
                                   \o overlap.violations,
                  close_codes |-> missed.close_codes \o longrun.close_codes
                                   \o overlap.close_codes]
            ELSE [violations |-> missed.violations \o spacing.violations,
                  close_codes |-> missed.close_codes \o <<"longrun", "overlap">>
                                   \o spacing.close_codes]

\* AlertpathShouldSendTest with > for >=
AlertpathShouldSendTestLate(exp_row, last_any_obs_time, t) ==
    \/ last_any_obs_time = NULL
    \/ (t - last_any_obs_time)
         > ParseParams("alert_path", exp_row.params_json).test_interval_s

\* alertpath_should_send_test(exp_row, last_any_obs_time), reading the clock as t
AlertpathShouldSendTest(exp_row, last_any_obs_time, t) ==
    LET params == ParseParams("alert_path", exp_row.params_json)
    IN  IF last_any_obs_time = NULL
        THEN TRUE
        ELSE (t - last_any_obs_time) >= params.test_interval_s

----------------------------------------------------------------------------
(* db.py: reads *)

ObsIds(exp_id) == {i \in DOMAIN obs : obs[i].expectation_id = exp_id}

\* ObsBefore with rows of one second in insertion order
ObsBeforeOldestFirst(i, j) ==
    \/ obs[i].observed_at > obs[j].observed_at
    \/ obs[i].observed_at = obs[j].observed_at /\ i < j

\* ORDER BY observed_at DESC served from idx_obs_exp_time read backwards:
\* rows of one second come newest rowid first
ObsBefore(i, j) ==
    \/ obs[i].observed_at > obs[j].observed_at
    \/ obs[i].observed_at = obs[j].observed_at /\ i > j

\* Store.recent_observations
RecentObservations(exp_id, limit) ==
    LET ids == ObsIds(exp_id)
        n == Min(limit, Cardinality(ids))
    IN  [k \in 1..n |->
            LET i == CHOOSE i \in ids :
                        Cardinality({j \in ids : ObsBefore(j, i)}) = k - 1
            IN  [id |-> i, expectation_id |-> exp_id, kind |-> obs[i].kind,
                 observed_at |-> obs[i].observed_at]]

\* Store.last_observation_time(exp_id), kind = None
LastObservationTime(exp_id) ==
    LET ids == ObsIds(exp_id)
    IN  IF ids = {} THEN NULL
        ELSE LET i == CHOOSE i \in ids :
                        \A j \in ids : obs[j].observed_at <= obs[i].observed_at
             IN  obs[i].observed_at

\* Store.last_observation_time(exp_id, kind)
LastObservationTimeOf(exp_id, kind) ==
    LET ids == {i \in ObsIds(exp_id) : obs[i].kind = kind}
    IN  IF ids = {} THEN NULL
        ELSE LET i == CHOOSE i \in ids :
                        \A j \in ids : obs[j].observed_at <= obs[i].observed_at
             IN  obs[i].observed_at

\* Store.get_expectation
GetExpectation(exp_id) ==
    LET ids == {i \in DOMAIN exps : exps[i].id = exp_id}
    IN  exps[CHOOSE i \in ids : TRUE]

\* ListEnabledExpectations without "WHERE is_enabled = 1"
ListAllExpectations == exps

\* Store.list_enabled_expectations: a table scan, rowid order
ListEnabledExpectations ==
    SelectSeq(exps, LAMBDA e : e.is_enabled)

\* Store.set_enabled
SetEnabledUpdate(exp_id, b) ==
    [i \in DOMAIN exps |->
        IF exps[i].id = exp_id THEN [exps[i] EXCEPT !.is_enabled = b]
        ELSE exps[i]]

\* Store.set_enabled: "updated_at = ?" with now_i()
SetEnabledStamp(exp_id, t) ==
    [i \in DOMAIN audit |->
        IF i = exp_id THEN [audit[i] EXCEPT !.updated_at = t] ELSE audit[i]]

\* PendingTrials with status = 'acked' for status = 'pending'
PendingTrialsAcked(exp_id) ==
    SelectSeq([i \in 1..Len(trials) |-> i],
              LAMBDA i : trials[i].expectation_id = exp_id
                         /\ trials[i].status = "acked")

\* Store.pending_trials: ids of the pending trials of exp_id, rowid order
PendingTrials(exp_id) ==
    SelectSeq([i \in 1..Len(trials) |-> i],
              LAMBDA i : trials[i].expectation_id = exp_id
                         /\ trials[i].status = "pending")

OpenIds(exp_id, code) ==
    {i \in DOMAIN viols : /\ viols[i].expectation_id = exp_id
                          /\ viols[i].code = code
                          /\ viols[i].is_open}

\* OpenViolation that finds no row
OpenViolationNone(exp_id, code) == 0

\* Store.open_violation: id of the open row with the newest detected_at
\* (0 when there is none); among rows of one second, ORDER BY detected_at
\* DESC LIMIT 1 yields the one of least rowid
OpenViolation(exp_id, code) ==
    LET ids == OpenIds(exp_id, code)
    IN  IF ids = {} THEN 0
        ELSE CHOOSE i \in ids :
                \A j \in ids :
                    \/ viols[j].detected_at < viols[i].detected_at
                    \/ viols[j].detected_at = viols[i].detected_at /\ i <= j

\* Store.open_violations_count(exp_id)
OpenViolationsCount(exp_id) ==
    Cardinality({i \in DOMAIN viols : viols[i].expectation_id = exp_id
                                      /\ viols[i].is_open})

----------------------------------------------------------------------------
(* db.py: writes, as the new value of the table *)

\* AddObservation writing over the newest row of the table
AddObservationOver(exp_id, kind, t) ==
    IF obs = <<>>
    THEN <<[expectation_id |-> exp_id, kind |-> kind, observed_at |-> t]>>
    ELSE [obs EXCEPT ![Len(obs)] =
            [expectation_id |-> exp_id, kind |-> kind, observed_at |-> t]]

\* Store.add_observation
AddObservation(exp_id, kind, t) ==
    Append(obs, [expectation_id |-> exp_id, kind |-> kind, observed_at |-> t])

\* CreateExpectationRefused without CHECK(tolerance_s >= 0)
CreateExpectationRefusedNoTol(params) ==
    \/ \E i \in DOMAIN exps : exps[i].id = params.exp_id
    \/ params.exp_type \notin Types
    \/ params.expected_interval_s < MinInterval

\* Store.create_expectation: the INSERT raises sqlite3.IntegrityError, by
\* PRIMARY KEY on id or by a CHECK of the schema
CreateExpectationRefused(params) ==
    \/ \E i \in DOMAIN exps : exps[i].id = params.exp_id
    \/ params.exp_type \notin Types
    \/ params.expected_interval_s < MinInterval
    \/ params.tolerance_s < 0

\* Store.create_expectation: the row the INSERT adds (is_enabled is the
\* literal 1 of its VALUES)
CreateExpectation(params) ==
    Append(exps, [id |-> params.exp_id, type |-> params.exp_type,
                  expected_interval_s |-> params.expected_interval_s,
                  tolerance_s |-> params.tolerance_s,
                  params_json |-> params.params_json,
                  is_enabled |-> TRUE])

\* Store.create_expectation: created_at and updated_at, both the t read by
\* "t = now_i()"
CreateExpectationStamp(params, t) ==
    audit @@ (params.exp_id :> [created_at |-> t, updated_at |-> t])

\* Store.create_trial
CreateTrial(exp_id, t) ==
    Append(trials, [expectation_id |-> exp_id, sent_at |-> t,
                    acked_at |-> NULL, status |-> "pending"])

\* the UPDATE of Store.ack_trial: no condition on status
AckTrialUpdate(trial_id, t) ==
    [i \in DOMAIN trials |->
        IF i = trial_id
        THEN [trials[i] EXCEPT !.acked_at = t, !.status = "acked"]
        ELSE trials[i]]

\* ExpireTrial without "AND status = 'pending'"
ExpireTrialUnguarded(trial_id) ==
    [i \in DOMAIN trials |->
        IF i = trial_id
        THEN [trials[i] EXCEPT !.status = "expired"]
        ELSE trials[i]]

\* Store.expire_trial: UPDATE ... WHERE id = ? AND status = 'pending'
ExpireTrial(trial_id) ==
    [i \in DOMAIN trials |->
        IF i = trial_id /\ trials[i].status = "pending"
        THEN [trials[i] EXCEPT !.status = "expired"]
        ELSE trials[i]]

\* CreateViolation opening again a closed row of the code when there is one
CreateViolationReopen(exp_id, code, ev, t) ==
    LET closed == {i \in DOMAIN viols : /\ viols[i].expectation_id = exp_id
                                         /\ viols[i].code = code
                                         /\ ~ viols[i].is_open}
    IN  IF closed = {}
        THEN Append(viols, [expectation_id |-> exp_id, detected_at |-> t,
                            code |-> code, evidence |-> ev, is_open |-> TRUE,
                            last_notified_at |-> NULL])
        ELSE [i \in DOMAIN viols |->
                IF i \in closed
                THEN [viols[i] EXCEPT !.is_open = TRUE, !.detected_at = t,
                                      !.evidence = ev]
                ELSE viols[i]]

\* Store.create_violation
CreateViolation(exp_id, code, ev, t) ==
    Append(viols, [expectation_id |-> exp_id, detected_at |-> t, code |-> code,
                   evidence |-> ev, is_open |-> TRUE,
                   last_notified_at |-> NULL])

\* CloseViolations without "AND code IN (...)"
CloseViolationsAnyCode(exp_id, codes) ==
    [i \in DOMAIN viols |->
        IF viols[i].expectation_id = exp_id /\ viols[i].is_open
        THEN [viols[i] EXCEPT !.is_open = FALSE]
        ELSE viols[i]]

\* Store.close_violations: cursor.rowcount, the number it returns
CloseViolationsCount(exp_id, codes) ==
    IF codes = {} THEN 0
    ELSE Cardinality({i \in DOMAIN viols : /\ viols[i].expectation_id = exp_id
                                            /\ viols[i].is_open
                                            /\ viols[i].code \in codes})

\* Store.close_violations
CloseViolations(exp_id, codes) ==
    [i \in DOMAIN viols |->
        IF /\ viols[i].expectation_id = exp_id
           /\ viols[i].is_open
           /\ viols[i].code \in codes
        THEN [viols[i] EXCEPT !.is_open = FALSE]
        ELSE viols[i]]

\* Store.mark_notified
MarkNotified(viol_id, t) ==
    [i \in DOMAIN viols |->
        IF i = viol_id THEN [viols[i] EXCEPT !.last_notified_at = t]
        ELSE viols[i]]

----------------------------------------------------------------------------
(* Initial state: schema and expectations created, nothing observed, the   *)
(* Checker about to start its first tick                                   *)

IdleAck == [pc |-> "idle", trial |-> 0, row |-> "none", ret |-> FALSE]

IdlePost == [pc |-> "idle", exp_id |-> "", kind |-> "", t |-> 0, code |-> 0]

\* the second Checker instance between two ticks (openv 0: the look-up
\* found nothing; seen: rows the violations table held at the look-up)
IdleTwin ==
    [pc |-> "wait", now |-> 0, todo |-> <<>>, close_codes |-> <<>>, tidx |-> 1,
     openv |-> 0, seen |-> 0, vid |-> 0]

\* Store.recent_observations has not been called directly
IdleGot == [n |-> 0, exp_id |-> "", limit |-> 0, rows |-> <<>>]

\* no admin request yet
IdleAdmin ==
    [n |-> 0, path |-> "", auth |-> "", form |-> [exp_id |-> ""], code |-> 0,
     raised |-> FALSE]

\* no request in flight; the Config main builds from the default arguments
ReqInit ==
    /\ acks = [a \in Ackers |-> IdleAck]
    /\ posts = [p \in Posters |-> IdlePost]
    /\ admin = IdleAdmin
    /\ audit = <<>>
    /\ twin = IdleTwin
    /\ got = IdleGot
    /\ cfg = [renotify_after_s |-> RenotifyAfter]

\* main has built the server, started the Checker and installed _sig, and
\* is in httpd.serve_forever(), which has cleared __is_shut_down
MainInit ==
    /\ stop = FALSE
    /\ mainpc = "serving"
    /\ srv = [shutdown_request |-> FALSE, is_shut_down |-> FALSE]

ChkInit ==
    /\ pc = "wait"
    /\ snap = <<>>
    /\ idx = 1
    /\ now = 0
    /\ cobs = <<>>
    /\ evalT = 0
    /\ closeCodes = <<>>
    /\ todo = <<>>
    /\ tidx = 1
    /\ pend = <<>>
    /\ pidx = 1
    /\ vid = 0
    /\ ackedBefore = {}
    /\ movedTrial = 0

Init ==
    /\ clock = 0
    /\ exps \in {<<ScheduleRow>>, <<AlertPathRow>>}
    /\ obs = <<>>
    /\ trials = <<>>
    /\ viols = <<>>
    /\ ReqInit
    /\ MainInit
    /\ ChkInit

----------------------------------------------------------------------------
(* The clock *)

AdvanceClock ==
    /\ \E d \in ClockSteps :
        /\ clock + d <= MaxTime
        /\ clock' = clock + d
    /\ UNCHANGED <<storeVars, chkVars, reqVars>>

----------------------------------------------------------------------------
(* server.py: Handler *)

\* _handle_observe_post for a known expectation and a valid kind, when the
\* clock does not move between t = now_i() and the INSERT of add_observation
\* (PostCheck and PostInsert are the handler statement by statement)
Observe ==
    /\ Len(obs) < MaxObs
    /\ \E i \in DOMAIN exps :
        \E kind \in ObserveKinds(exps[i].type) :
            obs' = AddObservation(exps[i].id, kind, clock)
    /\ UNCHANGED <<clock, exps, trials, viols, chkVars, reqVars>>

\* _handle_admin_enable with the admin token
SetEnabled ==
    /\ \E i \in DOMAIN exps, b \in BOOLEAN :
        /\ exps[i].is_enabled # b
        /\ exps' = SetEnabledUpdate(exps[i].id, b)
        /\ audit' = SetEnabledStamp(exps[i].id, clock)
    /\ UNCHANGED <<clock, obs, trials, viols, chkVars, acks, posts, cfg,
                   mainVars, admin, twin, got>>

\* Handler._auth_admin raises: secrets.compare_digest refuses a str with a
\* non-ASCII character (TypeError), and nothing in the handler catches it
AuthAdminRaises(auth) == auth = "nonascii"

\* Handler._auth_admin returns True: a "Bearer " header whose rest, stripped,
\* equals cfg.admin_token
AuthAdmin(auth) == auth \in {"token", "padded"}

\* the form of /admin/new, or the arguments of a direct call, as
\* CreateExpectationParams; params_json is a valid one for the type
FormParams(exp_id, exp_type, expected, tol) ==
    [exp_id |-> exp_id, exp_type |-> exp_type,
     expected_interval_s |-> expected, tolerance_s |-> tol,
     params_json |-> IF exp_type = "alert_path"
                     THEN AlertPathRow.params_json
                     ELSE ScheduleRow.params_json]

\* the answer of an admin request (code 0 and raised: the handler died
\* without answering), or the outcome of a direct Store call
Answer(path, auth, form, code, raised) ==
    [n |-> admin.n + 1, path |-> path, auth |-> auth, form |-> form,
     code |-> code, raised |-> raised]

\* _handle_admin_new: _auth_admin, the tests of the form, then
\* store.create_expectation under a fresh token
AdminNew ==
    /\ admin.n < MaxAdmin
    /\ \E id \in IdPool : \A i \in DOMAIN exps : exps[i].id # id
    /\ \E auth \in AuthHeaders, exp_type \in FormTypes,
          expected \in FormIntervals, tol \in FormTolerances :
        LET exp_id == CHOOSE id \in IdPool :
                        \A i \in DOMAIN exps : exps[i].id # id
            params == FormParams(exp_id, exp_type, expected, tol)
            refuse(code, raised) ==
                /\ admin' = Answer("/admin/new", auth, params, code, raised)
                /\ UNCHANGED <<exps, audit>>
        IN  IF AuthAdminRaises(auth) THEN refuse(0, TRUE)
            ELSE IF ~ AuthAdmin(auth) THEN refuse(401, FALSE)
            ELSE IF exp_type \notin Types THEN refuse(400, FALSE)
            ELSE IF expected < MinInterval THEN refuse(400, FALSE)
            ELSE IF CreateExpectationRefused(params) THEN refuse(0, TRUE)
            ELSE /\ exps' = CreateExpectation(params)
                 /\ audit' = CreateExpectationStamp(params, clock)
                 /\ admin' = Answer("/admin/new", auth, params, 200, FALSE)
    /\ UNCHANGED <<clock, obs, trials, viols, chkVars, acks, posts, cfg,
                   mainVars, twin, got>>

\* _handle_admin_enable(enable) for /admin/enable and /admin/disable:
\* _auth_admin, the id of the form, then store.set_enabled
AdminEnable ==
    /\ admin.n < MaxAdmin
    /\ \E enable \in BOOLEAN, auth \in AuthHeaders,
          exp_id \in {exps[i].id : i \in DOMAIN exps} \cup {UnknownId, ""} :
        LET path == IF enable THEN "/admin/enable" ELSE "/admin/disable"
            form == [exp_id |-> exp_id]
            refuse(code, raised) ==
                /\ admin' = Answer(path, auth, form, code, raised)
                /\ UNCHANGED <<exps, audit>>
        IN  IF AuthAdminRaises(auth) THEN refuse(0, TRUE)
            ELSE IF ~ AuthAdmin(auth) THEN refuse(401, FALSE)
            ELSE IF exp_id = "" THEN refuse(400, FALSE)
            ELSE /\ exps' = SetEnabledUpdate(exp_id, enable)
                 /\ audit' = SetEnabledStamp(exp_id, clock)
                 /\ admin' = Answer(path, auth, form, 200, FALSE)
    /\ UNCHANGED <<clock, obs, trials, viols, chkVars, acks, posts, cfg,
                   mainVars, twin, got>>

\* Store.create_expectation called directly, as the tests call it, under any
\* id, type, interval and tolerance
StoreCreate ==
    /\ admin.n < MaxAdmin
    /\ \E exp_id \in IdPool, exp_type \in FormTypes,
          expected \in FormIntervals, tol \in FormTolerances :
        LET params == FormParams(exp_id, exp_type, expected, tol)
        IN  IF CreateExpectationRefused(params)
            THEN /\ admin' = Answer("create_expectation", "", params, 0, TRUE)
                 /\ UNCHANGED <<exps, audit>>
            ELSE /\ exps' = CreateExpectation(params)
                 /\ audit' = CreateExpectationStamp(params, clock)
                 /\ admin' = Answer("create_expectation", "", params, 0, FALSE)
    /\ UNCHANGED <<clock, obs, trials, viols, chkVars, acks, posts, cfg,
                   mainVars, twin, got>>

\* KindValid accepting every kind
KindValidAny(kind) == TRUE

\* "if kind not in ('start', 'end', 'ping', 'ack')" of _handle_observe_post
KindValid(kind) == kind \in Kinds

\* _handle_observe_post up to the INSERT: get_expectation and the 404, the
\* kind test and the 400, then add_observation reading the clock (t = now_i())
PostCheck(p) ==
    /\ posts[p].pc \in {"idle", "done"}
    /\ Len(obs) + Cardinality({q \in Posters : posts[q].pc = "stamped"})
         < MaxPosts
    /\ \E exp_id \in {exps[i].id : i \in DOMAIN exps} \cup {UnknownId},
          kind \in PostKinds :
        posts' = [posts EXCEPT ![p] =
            IF \A i \in DOMAIN exps : exps[i].id # exp_id
            THEN [pc |-> "done", exp_id |-> exp_id, kind |-> kind, t |-> 0,
                  code |-> 404]
            ELSE IF ~ KindValid(kind)
            THEN [pc |-> "done", exp_id |-> exp_id, kind |-> kind, t |-> 0,
                  code |-> 400]
            ELSE [pc |-> "stamped", exp_id |-> exp_id, kind |-> kind,
                  t |-> clock, code |-> 0]]
    /\ UNCHANGED <<clock, storeVars, chkVars, acks, cfg, mainVars,
                   adminVars>>

\* add_observation: the INSERT with the t read before it; the handler
\* answers 200
PostInsert(p) ==
    /\ posts[p].pc = "stamped"
    /\ obs' = AddObservation(posts[p].exp_id, posts[p].kind, posts[p].t)
    /\ posts' = [posts EXCEPT ![p].pc = "done", ![p].t = 0, ![p].code = 200]
    /\ UNCHANGED <<clock, exps, trials, viols, chkVars, acks, cfg, mainVars,
                   adminVars>>

\* AckGoesOn refusing only a trial that is already acked
AckGoesOnNotAcked(row) == row \in {"pending", "expired"}

\* Store.ack_trial: "if not row or row['status'] != 'pending': return False"
AckGoesOn(row) == row = "pending"

\* _handle_ack -> Store.ack_trial, first statement: SELECT status.  trial_id
\* is any existing trial or an unknown token (0)
AckSelect(a) ==
    /\ acks[a].pc \in {"idle", "done"}
    /\ \E trial_id \in 0..Len(trials) :
        LET row == IF trial_id \in DOMAIN trials
                   THEN trials[trial_id].status ELSE "none"
        IN  acks' = [acks EXCEPT ![a] =
                [pc |-> IF AckGoesOn(row) THEN "selected" ELSE "done",
                 trial |-> trial_id,
                 row |-> row, ret |-> FALSE]]
    /\ UNCHANGED <<posts, cfg, mainVars, adminVars, clock, storeVars, chkVars>>

\* Store.ack_trial: the UPDATE, commit, return True; the handler answers 200
AckUpdate(a) ==
    /\ acks[a].pc = "selected"
    /\ trials' = AckTrialUpdate(acks[a].trial, clock)
    /\ acks' = [acks EXCEPT ![a].pc = "done", ![a].ret = TRUE]
    /\ UNCHANGED <<posts, cfg, mainVars, adminVars, clock, exps, obs, viols, chkVars>>

----------------------------------------------------------------------------
(* server.py: Checker *)

\* the expectation the for loop of tick is at
Cur == snap[idx]

\* locals of the calls below tick, as they are outside those calls
ChkLocalsReset ==
    /\ cobs' = <<>>
    /\ evalT' = 0
    /\ closeCodes' = <<>>
    /\ todo' = <<>>
    /\ tidx' = 1
    /\ pend' = <<>>
    /\ pidx' = 1
    /\ vid' = 0
    /\ movedTrial' = 0

\* TickRaises without the try/except of run: the exception ends the thread
TickRaisesEndsRun ==
    /\ pc' = "stopped"
    /\ snap' = <<>>
    /\ idx' = 1
    /\ ackedBefore' = {}
    /\ ChkLocalsReset
    /\ UNCHANGED now

\* an exception leaves tick: run prints it and waits for the next period
TickRaises ==
    /\ pc' = "wait"
    /\ snap' = <<>>
    /\ idx' = 1
    /\ ackedBefore' = {}
    /\ ChkLocalsReset
    /\ UNCHANGED now

\* Checker.run: "while not self.stop_evt.is_set()" after the wait; tick
\* reads the enabled expectations and the clock
TickStart ==
    /\ pc = "wait"
    /\ ~ stop
    /\ snap' = ListEnabledExpectations
    /\ now' = clock
    /\ idx' = 1
    /\ pc' = "dispatch"
    /\ ackedBefore' = {i \in DOMAIN trials : trials[i].status = "acked"}
    /\ UNCHANGED <<clock, storeVars, reqVars, cobs, evalT, closeCodes, todo, tidx,
                   pend, pidx, vid, movedTrial>>

\* the for loop of tick is exhausted: tick returns
TickEnd ==
    /\ pc = "dispatch"
    /\ idx > Len(snap)
    /\ pc' = "wait"
    /\ snap' = <<>>
    /\ idx' = 1
    /\ ackedBefore' = {}
    /\ UNCHANGED <<clock, storeVars, reqVars, now, cobs, evalT, closeCodes, todo,
                   tidx, pend, pidx, vid, movedTrial>>

\* _check_schedule: store.recent_observations(exp_id, limit=80)
SchedRead ==
    /\ pc = "dispatch"
    /\ idx <= Len(snap)
    /\ Cur.type = "schedule"
    /\ cobs' = RecentObservations(Cur.id, ObsLimit)
    /\ pc' = "sched_eval"
    /\ UNCHANGED <<clock, storeVars, reqVars, snap, idx, now, evalT, closeCodes,
                   todo, tidx, pend, pidx, vid, ackedBefore,
                   movedTrial>>

\* _check_schedule: rules.schedule_evaluate(exp, obs)
SchedEvaluate ==
    /\ pc = "sched_eval"
    /\ LET r == ScheduleEvaluate(Cur, cobs, clock)
       IN  /\ evalT' = clock
           /\ todo' = r.violations
           /\ closeCodes' = r.close_codes
           /\ tidx' = 1
           /\ pc' = IF r.close_codes # <<>> THEN "sched_close" ELSE "sched_open"
    /\ UNCHANGED <<clock, storeVars, reqVars, snap, idx, now, cobs, pend, pidx,
                   vid, ackedBefore,
                   movedTrial>>

\* _check_schedule: store.close_violations(exp_id, close_codes)
SchedClose ==
    /\ pc = "sched_close"
    /\ viols' = CloseViolations(Cur.id,
                    {closeCodes[k] : k \in 1..Len(closeCodes)})
    /\ pc' = "sched_open"
    /\ UNCHANGED <<clock, exps, obs, trials, reqVars, snap, idx, now, cobs,
                   evalT, closeCodes, todo, tidx, pend, pidx, vid, ackedBefore,
                   movedTrial>>

\* RenotifyDue whatever the configuration and the time of the last notice
RenotifyDueAlways(last_notified_at) == TRUE

\* "elif cfg.renotify_after_s and openv['last_notified_at']" and the test
\* under it
RenotifyDue(last_notified_at) ==
    /\ cfg.renotify_after_s # 0
    /\ last_notified_at # NULL /\ last_notified_at # 0
    /\ now - last_notified_at >= cfg.renotify_after_s

\* MustCreate without the look-up
MustCreateAlways(openv) == TRUE

\* "if openv is None" of _check_schedule and _check_alertpath
MustCreate(openv) == openv = 0

\* _check_schedule, one turn of the for loop over violations:
\* store.open_violation, then create_violation or the renotify test.
\* Only the Checker thread writes the violations table.
SchedOpen ==
    /\ pc = "sched_open"
    /\ tidx <= Len(todo)
    /\ LET v == todo[tidx]
           openv == OpenViolation(Cur.id, v.code)
       IN  IF MustCreate(openv)
           THEN /\ viols' = CreateViolation(Cur.id, v.code, v.ev, clock)
                /\ vid' = Len(viols) + 1
                /\ pc' = "notify"
                /\ tidx' = tidx
           ELSE /\ viols' = viols
                /\ IF openv # 0 /\ RenotifyDue(viols[openv].last_notified_at)
                   THEN vid' = openv /\ pc' = "notify" /\ tidx' = tidx
                   ELSE vid' = vid /\ pc' = pc /\ tidx' = tidx + 1
    /\ UNCHANGED <<clock, exps, obs, trials, reqVars, snap, idx, now, cobs,
                   evalT, closeCodes, todo, pend, pidx, ackedBefore,
                   movedTrial>>

\* _check_schedule returns: the for loop of tick moves on
SchedDone ==
    /\ pc = "sched_open"
    /\ tidx > Len(todo)
    /\ pc' = "dispatch"
    /\ idx' = idx + 1
    /\ ChkLocalsReset
    /\ UNCHANGED <<clock, storeVars, reqVars, snap, now, ackedBefore>>

\* ViolationsAfterRaise undoing the INSERT of the violation being notified
ViolationsRolledBack == SubSeq(viols, 1, vid - 1)

\* the violations table when the dispatch raised: create_violation has
\* committed its INSERT and nothing on the way out of tick writes the table
ViolationsAfterRaise == viols

\* _notify_violation: send_email and webhook_notifier.notify, then
\* store.mark_notified; an exception of the dispatch leaves tick
Notify ==
    /\ pc = "notify"
    /\ \/ /\ viols' = MarkNotified(vid, clock)
          /\ vid' = 0
          /\ IF Cur.type = "schedule"
             THEN pc' = "sched_open" /\ tidx' = tidx + 1 /\ pidx' = pidx
             ELSE pc' = "ap_loop" /\ pidx' = pidx + 1 /\ tidx' = tidx
          /\ UNCHANGED <<snap, idx, now, cobs, evalT, closeCodes, todo, pend,
                         ackedBefore, movedTrial>>
       \/ /\ TickRaises
          /\ viols' = ViolationsAfterRaise
    /\ UNCHANGED <<clock, exps, obs, trials, reqVars>>

\* _check_alertpath: store.last_observation_time and
\* rules.alertpath_should_send_test
ApShouldSend ==
    /\ pc = "dispatch"
    /\ idx <= Len(snap)
    /\ Cur.type = "alert_path"
    /\ pc' = IF AlertpathShouldSendTest(Cur, LastObservationTime(Cur.id), clock)
             THEN "ap_trial" ELSE "ap_pending"
    /\ UNCHANGED <<clock, storeVars, reqVars, snap, idx, now, cobs, evalT,
                   closeCodes, todo, tidx, pend, pidx, vid, ackedBefore,
                   movedTrial>>

\* _check_alertpath: store.create_trial
ApCreateTrial ==
    /\ pc = "ap_trial"
    /\ trials' = CreateTrial(Cur.id, clock)
    /\ pc' = "ap_ping"
    /\ UNCHANGED <<clock, exps, obs, viols, reqVars, snap, idx, now, cobs,
                   evalT, closeCodes, todo, tidx, pend, pidx, vid, ackedBefore,
                   movedTrial>>

\* _check_alertpath: store.add_observation(exp_id, "ping"), then send_email,
\* whose exception leaves tick
ApPing ==
    /\ pc = "ap_ping"
    /\ obs' = AddObservation(Cur.id, "ping", clock)
    /\ \/ /\ pc' = "ap_pending"
          /\ UNCHANGED <<snap, idx, now, cobs, evalT, closeCodes, todo, tidx,
                         pend, pidx, vid, ackedBefore,
                   movedTrial>>
       \/ TickRaises
    /\ UNCHANGED <<clock, exps, trials, viols, reqVars>>

\* _check_alertpath: store.pending_trials(exp_id)
ApPending ==
    /\ pc = "ap_pending"
    /\ pend' = PendingTrials(Cur.id)
    /\ pidx' = 1
    /\ pc' = "ap_loop"
    /\ UNCHANGED <<clock, storeVars, reqVars, snap, idx, now, cobs, evalT,
                   closeCodes, todo, tidx, vid, ackedBefore,
                   movedTrial>>

\* AckWindowExceeded with >= for >
AckWindowExceededAtWindow(exp_row, age) ==
    age >= ParseParams("alert_path", exp_row.params_json).ack_window_s
             + exp_row.tolerance_s

\* "if age > params.ack_window_s + int(exp['tolerance_s'])"
AckWindowExceeded(exp_row, age) ==
    age > ParseParams("alert_path", exp_row.params_json).ack_window_s
            + exp_row.tolerance_s

\* _check_alertpath, for loop over pending: the age test and store.expire_trial
ApLoop ==
    /\ pc = "ap_loop"
    /\ pidx <= Len(pend)
    /\ LET tr == pend[pidx]
           age == now - trials[tr].sent_at
       IN  IF AckWindowExceeded(Cur, age)
           THEN /\ trials' = ExpireTrial(tr)
                /\ movedTrial' = IF trials[tr].status = "pending" THEN tr ELSE 0
                /\ pc' = "ap_viol"
                /\ pidx' = pidx
           ELSE /\ trials' = trials
                /\ movedTrial' = movedTrial
                /\ pc' = pc
                /\ pidx' = pidx + 1
    /\ UNCHANGED <<clock, exps, obs, viols, reqVars, snap, idx, now, cobs,
                   evalT, closeCodes, todo, tidx, pend, vid, ackedBefore>>

\* _check_alertpath, for loop over pending: store.open_violation("no_ack")
\* and store.create_violation
ApViol ==
    /\ pc = "ap_viol"
    /\ LET tr == pend[pidx]
           age == now - trials[tr].sent_at
           ev == [trial_id |-> tr, sent_at |-> trials[tr].sent_at, age_s |-> age]
           openv == OpenViolation(Cur.id, "no_ack")
       IN  IF MustCreate(openv)
           THEN /\ viols' = CreateViolation(Cur.id, "no_ack", ev, clock)
                /\ vid' = Len(viols) + 1
                /\ pc' = "notify"
                /\ pidx' = pidx
           ELSE /\ viols' = viols
                /\ vid' = vid
                /\ pc' = "ap_loop"
                /\ pidx' = pidx + 1
    /\ movedTrial' = 0
    /\ UNCHANGED <<clock, exps, obs, trials, reqVars, snap, idx, now, cobs,
                   evalT, closeCodes, todo, tidx, pend, ackedBefore>>

\* _check_alertpath, after the for loop: store.close_violations(["no_ack"]);
\* the for loop of tick moves on
ApClose ==
    /\ pc = "ap_loop"
    /\ pidx > Len(pend)
    /\ viols' = CloseViolations(Cur.id, {"no_ack"})
    /\ pc' = "dispatch"
    /\ idx' = idx + 1
    /\ ChkLocalsReset
    /\ UNCHANGED <<clock, exps, obs, trials, reqVars, snap, now, ackedBefore>>

----------------------------------------------------------------------------
Next ==
    \/ AdvanceClock
    \/ Observe
    \/ SetEnabled
    \/ \E a \in Ackers : AckSelect(a)
    \/ \E a \in Ackers : AckUpdate(a)
    \/ TickStart
    \/ TickEnd
    \/ SchedRead
    \/ SchedEvaluate
    \/ SchedClose
    \/ SchedOpen
    \/ SchedDone
    \/ Notify
    \/ ApShouldSend
    \/ ApCreateTrial
    \/ ApPing
    \/ ApPending
    \/ ApLoop
    \/ ApViol
    \/ ApClose

Spec == Init /\ [][Next]_vars

----------------------------------------------------------------------------
(* Both contracts in one table, the Checker and POST /observe only *)

InitPair ==
    /\ clock = 0
    /\ exps = <<ScheduleRow, AlertPathRow>>
    /\ obs = <<>>
    /\ trials = <<>>
    /\ viols = <<>>
    /\ ReqInit
    /\ MainInit
    /\ ChkInit

Checker ==
    \/ TickStart
    \/ TickEnd
    \/ SchedRead
    \/ SchedEvaluate
    \/ SchedClose
    \/ SchedOpen
    \/ SchedDone
    \/ Notify
    \/ ApShouldSend
    \/ ApCreateTrial
    \/ ApPing
    \/ ApPending
    \/ ApLoop
    \/ ApViol
    \/ ApClose

NextPair ==
    \/ AdvanceClock
    \/ Observe
    \/ Checker

SpecPair == InitPair /\ [][NextPair]_vars

----------------------------------------------------------------------------
(* A schedule contract whose job has reported more than ObsLimit times:    *)
(* one start and then k further beacons of one kind in the same second     *)

HistoryLog(k, kind) ==
    [i \in 1..(k + 1) |->
        [expectation_id |-> ScheduleRow.id,
         kind |-> IF i = 1 THEN "start" ELSE kind,
         observed_at |-> 0]]

InitHistory ==
    /\ clock = 0
    /\ exps = <<ScheduleRow>>
    /\ \E k \in {ObsLimit - 1, ObsLimit}, kind \in {"ping", "ack"} :
        obs = HistoryLog(k, kind)
    /\ trials = <<>>
    /\ viols = <<>>
    /\ ReqInit
    /\ MainInit
    /\ ChkInit

NextHistory ==
    \/ AdvanceClock
    \/ TickStart
    \/ TickEnd
    \/ SchedRead
    \/ SchedEvaluate
    \/ SchedClose
    \/ SchedOpen
    \/ SchedDone
    \/ Notify

SpecHistory == InitHistory /\ [][NextHistory]_vars

----------------------------------------------------------------------------
(* The POST /observe request threads statement by statement, with          *)
(* enable/disable requests and the clock                                   *)

InitIngress ==
    /\ clock = 0
    /\ exps = <<ScheduleRow>>
    /\ obs = <<>>
    /\ trials = <<>>
    /\ viols = <<>>
    /\ ReqInit
    /\ MainInit
    /\ ChkInit

NextIngress ==
    \/ AdvanceClock
    \/ SetEnabled
    \/ \E p \in Posters : PostCheck(p)
    \/ \E p \in Posters : PostInsert(p)

SpecIngress == InitIngress /\ [][NextIngress]_vars
----------------------------------------------------------------------------
(* One contract of either type, enable/disable requests, one POST /observe *)
(* request thread statement by statement, and the Checker                  *)

NextToggle ==
    \/ AdvanceClock
    \/ SetEnabled
    \/ PostCheck("p1")
    \/ PostInsert("p1")
    \/ Checker

SpecToggle == Init /\ [][NextToggle]_vars

----------------------------------------------------------------------------
(* A schedule contract under either --renotify-after, its job reporting    *)
(* starts through one request thread, and the Checker                      *)

InitRenotify ==
    /\ clock = 0
    /\ exps = <<QuickRow>>
    /\ obs = <<>>
    /\ trials = <<>>
    /\ viols = <<>>
    /\ acks = [a \in Ackers |-> IdleAck]
    /\ posts = [p \in Posters |-> IdlePost]
    /\ admin = IdleAdmin
    /\ audit = <<>>
    /\ twin = IdleTwin
    /\ got = IdleGot
    /\ \E r \in RenotifyChoices : cfg = [renotify_after_s |-> r]
    /\ MainInit
    /\ ChkInit

NextRenotify ==
    \/ AdvanceClock
    \/ PostCheck("p1")
    \/ PostInsert("p1")
    \/ TickStart
    \/ TickEnd
    \/ SchedRead
    \/ SchedEvaluate
    \/ SchedClose
    \/ SchedOpen
    \/ SchedDone
    \/ Notify

SpecRenotify == InitRenotify /\ [][NextRenotify]_vars

----------------------------------------------------------------------------
(* Shutdown: main installs _sig for SIGINT and SIGTERM and calls            *)
(* httpd.serve_forever() on the main thread.  Python runs a signal handler  *)
(* on the main thread, on top of the frame the signal interrupted, and that *)
(* frame goes on only when the handler has returned.                        *)

\* httpd.serve_forever() on the main thread, one turn of its loop: it leaves
\* ("while not self.__shutdown_request", then the finally clause) when the
\* request flag is set; otherwise it blocks in select, where SIGINT or SIGTERM
\* interrupts it and _sig is entered
ServeForever ==
    /\ mainpc = "serving"
    /\ IF srv.shutdown_request
       THEN /\ srv' = [shutdown_request |-> FALSE, is_shut_down |-> TRUE]
            /\ mainpc' = "exited"
       ELSE /\ srv' = srv
            /\ mainpc' = "sig"
    /\ UNCHANGED <<clock, storeVars, chkVars, acks, posts, cfg, adminVars,
                   stop>>

\* _sig: stop_evt.set()
SigStop ==
    /\ mainpc = "sig"
    /\ stop' = TRUE
    /\ mainpc' = "sig_shutdown"
    /\ UNCHANGED <<clock, storeVars, chkVars, acks, posts, cfg, adminVars,
                   srv>>

\* _sig: httpd.shutdown(), which sets __shutdown_request and then waits for
\* __is_shut_down (self.__is_shut_down.wait()); _sig returns after it and the
\* interrupted serve_forever goes on
HttpdShutdown ==
    /\ mainpc \in {"sig_shutdown", "shutdown_wait"}
    /\ IF mainpc = "sig_shutdown"
       THEN /\ srv' = [srv EXCEPT !.shutdown_request = TRUE]
            /\ mainpc' = "shutdown_wait"
       ELSE /\ srv.is_shut_down
            /\ srv' = srv
            /\ mainpc' = "serving"
    /\ UNCHANGED <<clock, storeVars, chkVars, acks, posts, cfg, adminVars,
                   stop>>

\* the main thread
MainThread ==
    \/ ServeForever
    \/ SigStop
    \/ HttpdShutdown

\* Checker.run: the wait returns at once when stop_evt is set, "while not
\* self.stop_evt.is_set()" fails and run returns
CheckerExit ==
    /\ pc = "wait"
    /\ stop
    /\ pc' = "stopped"
    /\ UNCHANGED <<clock, storeVars, reqVars, snap, idx, now, cobs, evalT,
                   closeCodes, todo, tidx, pend, pidx, vid, ackedBefore,
                   movedTrial>>

NextShutdown ==
    \/ AdvanceClock
    \/ Observe
    \/ Checker
    \/ CheckerExit
    \/ ServeForever
    \/ SigStop
    \/ HttpdShutdown

\* the main thread and the Checker thread are both scheduled: neither waits
\* forever for a step it can take
SpecShutdown ==
    /\ InitPair
    /\ [][NextShutdown]_vars
    /\ WF_vars(MainThread)
    /\ WF_vars(Checker \/ CheckerExit)

----------------------------------------------------------------------------
(* The rule engine on the beacon logs of a schedule contract: the job has   *)
(* reported up to MaxRuleLog starts and ends, and the Checker passes at 60  *)

\* the observations tables POST /observe leaves: rows in arrival order
RuleLogs ==
    UNION {{log \in [1..n -> [expectation_id : {"e4"},
                              kind : {"start", "end"},
                              observed_at : RuleTimes]] :
                \A i \in 1..(n - 1) :
                    log[i].observed_at <= log[i + 1].observed_at} :
           n \in 1..MaxRuleLog}

InitRules ==
    /\ clock = 60
    /\ \E m \in SpacingChoices : exps = <<SpacingRow(m)>>
    /\ obs \in RuleLogs
    /\ trials = <<>>
    /\ viols = <<>>
    /\ ReqInit
    /\ MainInit
    /\ ChkInit

NextRules ==
    \/ TickStart
    \/ TickEnd
    \/ SchedRead
    \/ SchedEvaluate
    \/ SchedClose
    \/ SchedOpen
    \/ SchedDone
    \/ Notify

SpecRules == InitRules /\ [][NextRules]_vars

----------------------------------------------------------------------------
(* A fresh database (--init-db): the admin requests and direct calls of     *)
(* Store.create_expectation fill the expectations table                     *)

InitAdmin ==
    /\ clock = 0
    /\ exps = <<>>
    /\ obs = <<>>
    /\ trials = <<>>
    /\ viols = <<>>
    /\ ReqInit
    /\ MainInit
    /\ ChkInit

NextAdmin ==
    \/ AdvanceClock
    \/ AdminNew
    \/ AdminEnable
    \/ StoreCreate

SpecAdmin == InitAdmin /\ [][NextAdmin]_vars

----------------------------------------------------------------------------
(* Two Checker instances on one Store: the Checker above and a second one,  *)
(* whose pass over the schedule contract is taken Store call by Store call  *)

\* the contract both instances watch
TwinRow == exps[1]

\* second instance, Checker.tick and _check_schedule up to close_violations:
\* list_enabled_expectations, now, recent_observations, schedule_evaluate
TwinTick ==
    /\ twin.pc = "wait"
    /\ ListEnabledExpectations # <<>>
    /\ LET r == ScheduleEvaluate(TwinRow,
                    RecentObservations(TwinRow.id, ObsLimit), clock)
       IN  twin' = [pc |-> IF r.close_codes # <<>> THEN "close" ELSE "lookup",
                    now |-> clock, todo |-> r.violations,
                    close_codes |-> r.close_codes, tidx |-> 1,
                    openv |-> 0, seen |-> 0, vid |-> 0]
    /\ UNCHANGED <<clock, storeVars, chkVars, acks, posts, cfg, mainVars, admin,
                   audit, got>>

\* second instance: store.close_violations(exp_id, close_codes)
TwinClose ==
    /\ twin.pc = "close"
    /\ viols' = CloseViolations(TwinRow.id,
                    {twin.close_codes[k] : k \in 1..Len(twin.close_codes)})
    /\ twin' = [twin EXCEPT !.pc = "lookup"]
    /\ UNCHANGED <<clock, exps, obs, trials, chkVars, acks, posts, cfg,
                   mainVars, admin, audit, got>>

\* second instance, for loop over violations: openv = store.open_violation,
\* "if openv is None" and the renotify test
TwinLookup ==
    /\ twin.pc = "lookup"
    /\ twin.tidx <= Len(twin.todo)
    /\ LET openv == OpenViolation(TwinRow.id, twin.todo[twin.tidx].code)
       IN  twin' =
             IF MustCreate(openv)
             THEN [twin EXCEPT !.pc = "create", !.openv = openv,
                               !.seen = Len(viols)]
             ELSE IF /\ cfg.renotify_after_s # 0
                     /\ viols[openv].last_notified_at # NULL
                     /\ viols[openv].last_notified_at # 0
                     /\ twin.now - viols[openv].last_notified_at
                          >= cfg.renotify_after_s
             THEN [twin EXCEPT !.pc = "notify", !.openv = openv,
                               !.seen = Len(viols), !.vid = openv]
             ELSE [twin EXCEPT !.tidx = twin.tidx + 1, !.openv = 0,
                               !.seen = 0]
    /\ UNCHANGED <<clock, storeVars, chkVars, acks, posts, cfg, mainVars, admin,
                   audit, got>>

\* second instance: vid = store.create_violation(...)
TwinCreate ==
    /\ twin.pc = "create"
    /\ LET v == twin.todo[twin.tidx]
       IN  viols' = CreateViolation(TwinRow.id, v.code, v.ev, clock)
    /\ twin' = [twin EXCEPT !.pc = "notify", !.vid = Len(viols) + 1]
    /\ UNCHANGED <<clock, exps, obs, trials, chkVars, acks, posts, cfg,
                   mainVars, admin, audit, got>>

\* second instance: _notify_violation; an exception of the dispatch leaves
\* the tick
TwinNotify ==
    /\ twin.pc = "notify"
    /\ \/ /\ viols' = MarkNotified(twin.vid, clock)
          /\ twin' = [twin EXCEPT !.pc = "lookup", !.tidx = twin.tidx + 1,
                                  !.openv = 0, !.seen = 0, !.vid = 0]
       \/ /\ viols' = viols
          /\ twin' = IdleTwin
    /\ UNCHANGED <<clock, exps, obs, trials, chkVars, acks, posts, cfg,
                   mainVars, admin, audit, got>>

\* second instance: the for loop is exhausted, the tick returns
TwinDone ==
    /\ twin.pc = "lookup"
    /\ twin.tidx > Len(twin.todo)
    /\ twin' = IdleTwin
    /\ UNCHANGED <<clock, storeVars, chkVars, acks, posts, cfg, mainVars, admin,
                   audit, got>>

\* the job of the contract has reported one start, max_runtime_s ago and more
InitTwins ==
    /\ clock = 30
    /\ exps = <<QuickRow>>
    /\ obs = <<[expectation_id |-> QuickRow.id, kind |-> "start",
                observed_at |-> 0]>>
    /\ trials = <<>>
    /\ viols = <<>>
    /\ ReqInit
    /\ MainInit
    /\ ChkInit

NextTwins ==
    \/ AdvanceClock
    \/ TickStart
    \/ TickEnd
    \/ SchedRead
    \/ SchedEvaluate
    \/ SchedClose
    \/ SchedOpen
    \/ SchedDone
    \/ Notify
    \/ TwinTick
    \/ TwinClose
    \/ TwinLookup
    \/ TwinCreate
    \/ TwinNotify
    \/ TwinDone

SpecTwins == InitTwins /\ [][NextTwins]_vars

----------------------------------------------------------------------------
(* Concurrent GET /ack requests: ThreadingHTTPServer runs each request on  *)
(* its own thread, and each ack_trial call opens its own connection        *)

\* two trials have been sent and wait for their acknowledgement
InitAcks ==
    /\ clock = 0
    /\ exps = <<AlertPathRow>>
    /\ obs = <<>>
    /\ trials = <<[expectation_id |-> AlertPathRow.id, sent_at |-> 0,
                   acked_at |-> NULL, status |-> "pending"],
                  [expectation_id |-> AlertPathRow.id, sent_at |-> 0,
                   acked_at |-> NULL, status |-> "pending"]>>
    /\ viols = <<>>
    /\ acks = [a \in AckPair |-> IdleAck]
    /\ posts = [p \in Posters |-> IdlePost]
    /\ cfg = [renotify_after_s |-> 0]
    /\ admin = IdleAdmin
    /\ audit = <<>>
    /\ twin = IdleTwin
    /\ got = IdleGot
    /\ MainInit
    /\ ChkInit

NextAcks ==
    \/ AdvanceClock
    \/ \E a \in AckPair : AckSelect(a)
    \/ \E a \in AckPair : AckUpdate(a)

SpecAcks == InitAcks /\ [][NextAcks]_vars

----------------------------------------------------------------------------
(* A schedule contract whose beacons arrive in bursts: the Checker reads    *)
(* the newest ObsLimit rows only                                            *)

\* n requests POST /observe/{id} with the same kind, all handled within the
\* second: n times _handle_observe_post -> add_observation.  The job reports
\* its end once, a monitor pings in bursts.
ObserveBurst ==
    /\ \E kind \in {"end", "ping"}, n \in {1, MaxBurst} :
        /\ n = 1 <=> kind = "end"
        /\ Len(obs) <= (IF n = 1 THEN MaxObs ELSE MaxObs + 1)
        /\ obs' = obs \o [k \in 1..n |->
                            [expectation_id |-> exps[1].id, kind |-> kind,
                             observed_at |-> clock]]
    /\ UNCHANGED <<clock, exps, trials, viols, chkVars, reqVars>>

\* the job has reported its first start, max_runtime_s ago and more
InitWindow ==
    /\ clock = 30
    /\ exps = <<EvalRow([max_runtime_s |-> 29, min_spacing_s |-> 41,
                         allow_overlap |-> FALSE])>>
    /\ obs = <<[expectation_id |-> "e4", kind |-> "start", observed_at |-> 0]>>
    /\ trials = <<>>
    /\ viols = <<>>
    /\ ReqInit
    /\ MainInit
    /\ ChkInit

NextWindow ==
    \/ AdvanceClock
    \/ ObserveBurst
    \/ TickStart
    \/ TickEnd
    \/ SchedRead
    \/ SchedEvaluate
    \/ SchedClose
    \/ SchedOpen
    \/ SchedDone
    \/ Notify

SpecWindow == InitWindow /\ [][NextWindow]_vars

----------------------------------------------------------------------------
(* An alert_path contract whose id also receives POST /observe requests     *)

InitTests ==
    /\ clock = 0
    /\ exps = <<AlertPathRow>>
    /\ obs = <<>>
    /\ trials = <<>>
    /\ viols = <<>>
    /\ ReqInit
    /\ MainInit
    /\ ChkInit

NextTests ==
    \/ AdvanceClock
    \/ PostCheck("p1")
    \/ PostInsert("p1")
    \/ TickStart
    \/ TickEnd
    \/ Notify
    \/ ApShouldSend
    \/ ApCreateTrial
    \/ ApPing
    \/ ApPending
    \/ ApLoop
    \/ ApViol
    \/ ApClose

SpecTests == InitTests /\ [][NextTests]_vars

----------------------------------------------------------------------------
(* The rule engine on the beacon logs of schedule contracts of every shape  *)
(* of params_json, the Checker passing at the end of the expected interval  *)
(* or a second later                                                        *)

InitEval ==
    /\ clock \in {60, 61}
    /\ \E params_json \in ParamChoices : exps = <<EvalRow(params_json)>>
    /\ obs \in RuleLogs
    /\ trials = <<>>
    /\ viols = <<>>
    /\ ReqInit
    /\ MainInit
    /\ ChkInit

SpecEval == InitEval /\ [][NextRules]_vars

----------------------------------------------------------------------------
(* Store.recent_observations called directly, as the tests call it, on the  *)
(* beacon logs of two contracts                                             *)

\* the observations tables POST /observe leaves for two contracts: rows in
\* arrival order, several within one second
RecentLogs ==
    UNION {{log \in [1..n -> [expectation_id : {ScheduleRow.id, AlertPathRow.id},
                              kind : {"ping"},
                              observed_at : {0, 10}]] :
                \A i \in 1..(n - 1) :
                    log[i].observed_at <= log[i + 1].observed_at} :
           n \in 1..MaxRuleLog}

StoreRecent ==
    /\ got.n < MaxRecent
    /\ \E i \in DOMAIN exps, limit \in RecentLimits :
        got' = [n |-> got.n + 1, exp_id |-> exps[i].id, limit |-> limit,
                rows |-> RecentObservations(exps[i].id, limit)]
    /\ UNCHANGED <<clock, storeVars, chkVars, acks, posts, cfg, mainVars, admin,
                   audit, twin>>

InitRecent ==
    /\ clock = 10
    /\ exps = <<ScheduleRow, AlertPathRow>>
    /\ obs \in RecentLogs
    /\ trials = <<>>
    /\ viols = <<>>
    /\ ReqInit
    /\ MainInit
    /\ ChkInit

NextRecent ==
    \/ StoreRecent
    \/ PostCheck("p1")
    \/ PostInsert("p1")

SpecRecent == InitRecent /\ [][NextRecent]_vars

----------------------------------------------------------------------------
(* Checker.run around the ticks over one schedule contract whose notices    *)
(* may fail, until the stop signal                                          *)

\* Checker.run: the loop test, tick over a schedule contract, the wait
RunLoop ==
    \/ TickStart
    \/ TickEnd
    \/ SchedRead
    \/ SchedEvaluate
    \/ SchedClose
    \/ SchedOpen
    \/ SchedDone
    \/ Notify
    \/ CheckerExit

NextRetry ==
    \/ AdvanceClock
    \/ RunLoop
    \/ ServeForever
    \/ SigStop
    \/ HttpdShutdown

\* the Checker thread is scheduled again and again
SpecRetry == InitTwins /\ [][NextRetry]_vars /\ WF_vars(RunLoop)

----------------------------------------------------------------------------
(* Properties *)

AckWindow(exp_id) ==
    LET e == GetExpectation(exp_id)
    IN  ParseParams("alert_path", e.params_json).ack_window_s + e.tolerance_s

\* C1: once a trial's status is acked or expired it never changes again
\* (ack_trial and expire_trial never both transition the same trial).
C1_TerminalAbsorbing ==
    [][\A i \in DOMAIN trials :
          trials[i].status \in {"acked", "expired"}
              => trials'[i].status = trials[i].status]_vars

\* C2: with one Checker and concurrent observe, ack and enable/disable
\* requests, each (expectation_id, code) has at most one open violation row.
C2_OneOpenPerCode ==
    \A i \in DOMAIN exps : \A code \in Codes :
        Cardinality(OpenIds(exps[i].id, code)) <= 1

\* the Checker is about to create or skip a code that already has an open row
C2_Witness ==
    /\ pc = "sched_open"
    /\ tidx <= Len(todo)
    /\ OpenViolation(Cur.id, todo[tidx].code) # 0

\* _check_schedule has applied its evaluation of Cur, and neither the clock
\* nor the observations the Checker reads have changed since it evaluated
JustEvaluated ==
    /\ pc = "sched_open"
    /\ tidx > Len(todo)
    /\ evalT = clock
    /\ cobs = RecentObservations(Cur.id, ObsLimit)

\* C3: right after the Checker evaluated a schedule expectation at time now,
\* an open missed violation exists iff the expectation has a start and
\* now - (newest start) > expected_interval_s + tolerance_s.
C3_MissedIffOverdue ==
    JustEvaluated =>
        LET last_start == LastObservationTimeOf(Cur.id, "start")
        IN  (OpenViolation(Cur.id, "missed") # 0)
            <=> (/\ last_start # NULL
                 /\ clock - last_start
                      > Cur.expected_interval_s + Cur.tolerance_s)

\* C4: with max_runtime_s > 0, right after the Checker evaluated a schedule
\* expectation at time now, an open longrun violation exists iff the newest
\* start has no end at or after it and now - start > max_runtime_s.
C4_LongrunIffRunningLong ==
    (JustEvaluated
       /\ ParseParams("schedule", Cur.params_json).max_runtime_s > 0) =>
        LET last_start == LastObservationTimeOf(Cur.id, "start")
            last_end == LastObservationTimeOf(Cur.id, "end")
            running == last_start # NULL
                       /\ (last_end = NULL \/ last_end < last_start)
        IN  (OpenViolation(Cur.id, "longrun") # 0)
            <=> (/\ running
                 /\ clock - last_start
                      > ParseParams("schedule", Cur.params_json).max_runtime_s)

\* the trials of the pass's pending list that exceeded their ack window
Exceeded ==
    {pend[k] : k \in {k \in 1..Len(pend) :
                        AckWindowExceeded(Cur, now - trials[pend[k]].sent_at)}}

\* C5: a pass over an alert_path expectation closes no_ack only if no pending
\* trial exceeded its window in the pass, and a pass that expired a trial
\* ends with the trial expired and an open no_ack violation naming it.
C5_NoAckStaysOpen ==
    [][(pc = "ap_loop" /\ pc' = "dispatch") =>
          /\ Exceeded # {} =>
                \A j \in DOMAIN viols :
                    (viols[j].code = "no_ack" /\ viols[j].is_open)
                        => viols'[j].is_open
          /\ \A tr \in Exceeded :
                trials[tr].status = "expired" =>
                    \E j \in DOMAIN viols' :
                        /\ viols'[j].code = "no_ack"
                        /\ viols'[j].is_open
                        /\ viols'[j].expectation_id = Cur.id
                        /\ viols'[j].evidence.trial_id = tr]_vars

NoStart(exp_id) == \A i \in ObsIds(exp_id) : obs[i].kind # "start"

\* C6: a schedule expectation with no start among its observations gets no
\* codes to open or close from schedule_evaluate, at any time, and has no
\* violation row.
C6_EpistemicSilence ==
    \A i \in DOMAIN exps :
        (exps[i].type = "schedule" /\ NoStart(exps[i].id)) =>
            /\ ScheduleEvaluate(exps[i],
                                RecentObservations(exps[i].id, ObsLimit),
                                clock)
                 = [violations |-> <<>>, close_codes |-> <<>>]
            /\ \A j \in DOMAIN viols : viols[j].expectation_id # exps[i].id

\* the Checker finished a pass over a schedule expectation that has beacons
\* but no start, long after an interval went by
C6_Witness ==
    /\ pc = "sched_open"
    /\ tidx > Len(todo)
    /\ NoStart(Cur.id)
    /\ ObsIds(Cur.id) # {}
    /\ evalT > Cur.expected_interval_s + Cur.tolerance_s

\* C7: when the evaluation of one expectation raises, the expectations after
\* it in the tick's snapshot are still evaluated in that tick: a tick ends
\* only with its for loop at or past the last expectation.
C7_TickGoesOn ==
    [][(pc # "wait" /\ pc' = "wait") => idx >= Len(snap)]_vars

\* C8: an acked trial has acked_at, an expired or pending one has none.
C8_TrialStates ==
    \A i \in DOMAIN trials :
        /\ trials[i].status \in {"pending", "acked", "expired"}
        /\ trials[i].status = "acked" => trials[i].acked_at # NULL
        /\ trials[i].status \in {"expired", "pending"}
              => trials[i].acked_at = NULL

\* the Checker has called expire_trial for a trial of its pending list that
\* an ack took, and the trial is acked with its acked_at
C8_Witness ==
    /\ pc = "ap_viol"
    /\ trials[pend[pidx]].status = "acked"
    /\ trials[pend[pidx]].acked_at # NULL

\* C9: ack_trial goes on to its UPDATE and returns true exactly when its
\* SELECT found the trial pending, and then the trial is acked with acked_at
\* set; for an unknown, acked or expired trial it returns false and changes
\* no table.
C9_AckTrial ==
    [][\A a \in Ackers :
          LET old == acks[a]
              new == acks'[a]
              tid == new.trial
          IN  /\ (old.pc \in {"idle", "done"} /\ new.pc = "selected") =>
                    /\ tid \in DOMAIN trials
                    /\ trials[tid].status = "pending"
                    /\ trials' = trials
              /\ (old.pc \in {"idle", "done"} /\ new.pc = "done"
                    /\ new # old) =>
                    /\ new.ret = FALSE
                    /\ tid \notin DOMAIN trials
                         \/ trials[tid].status \in {"acked", "expired"}
                    /\ <<exps, obs, trials, viols>>'
                         = <<exps, obs, trials, viols>>
              /\ (old.pc = "selected" /\ new.pc = "done") =>
                    /\ new.ret = TRUE
                    /\ trials'[tid].status = "acked"
                    /\ trials'[tid].acked_at = clock
                    /\ \A i \in DOMAIN trials \ {tid} : trials'[i] = trials[i]
              /\ new.pc = "done" => (new.ret <=> new.row = "pending")]_vars

\* an ack of a trial that an earlier ack had acknowledged was answered 404
C9_Witness ==
    \E a \in Ackers :
        /\ acks[a].pc = "done"
        /\ acks[a].ret = FALSE
        /\ acks[a].row = "acked"
        /\ trials[acks[a].trial].acked_at # NULL

\* C10: the Checker expires a trial only when now - sent_at > ack_window_s +
\* tolerance_s, and a tick that starts after a trial was acknowledged inside
\* its window creates no no_ack violation for that trial.
C10_ExpireOnlyLate ==
    [][/\ \A i \in DOMAIN trials :
            (trials[i].status # "expired" /\ trials'[i].status = "expired")
                => /\ now - trials[i].sent_at > AckWindow(trials[i].expectation_id)
                   /\ clock - trials[i].sent_at > AckWindow(trials[i].expectation_id)
       /\ \A j \in DOMAIN viols' \ DOMAIN viols :
            viols'[j].code = "no_ack" =>
                LET tr == viols'[j].evidence.trial_id
                IN  ~ (/\ tr \in ackedBefore
                       /\ trials[tr].acked_at - trials[tr].sent_at
                            <= AckWindow(trials[tr].expectation_id))]_vars

\* a pass ends long after the window of a trial acknowledged inside it
C10_Witness ==
    /\ pc = "ap_loop"
    /\ pidx > Len(pend)
    /\ \E tr \in ackedBefore :
        /\ trials[tr].acked_at - trials[tr].sent_at
             <= AckWindow(trials[tr].expectation_id)
        /\ now - trials[tr].sent_at > AckWindow(trials[tr].expectation_id)
        /\ \A j \in DOMAIN viols :
              viols[j].code = "no_ack" => viols[j].evidence.trial_id # tr

\* a step of the Checker thread
CheckerStep == chkVars' # chkVars

\* C11: a pass over an alert_path expectation goes on to send a synthetic
\* test iff the expectation has no observation or now - (newest observed_at)
\* >= test_interval_s; when it does, it creates exactly one pending trial and
\* then exactly one ping observation, and no other step of the Checker
\* creates a trial or an observation.
C11_SendTestIff ==
    [][CheckerStep =>
        /\ (pc = "dispatch" /\ idx <= Len(snap) /\ Cur.type = "alert_path") =>
              LET ids == ObsIds(Cur.id)
                  due == \/ ids = {}
                         \/ \E i \in ids :
                              /\ \A j \in ids :
                                    obs[j].observed_at <= obs[i].observed_at
                              /\ clock - obs[i].observed_at
                                   >= Cur.params_json.test_interval_s
              IN  /\ (pc' = "ap_trial") <=> due
                  /\ pc' \in {"ap_trial", "ap_pending"}
        /\ pc = "ap_trial" =>
              /\ Len(trials') = Len(trials) + 1
              /\ trials'[Len(trials')].status = "pending"
              /\ trials'[Len(trials')].expectation_id = Cur.id
              /\ \A i \in DOMAIN trials : trials'[i] = trials[i]
              /\ obs' = obs
              /\ pc' = "ap_ping"
        /\ pc = "ap_ping" =>
              /\ Len(obs') = Len(obs) + 1
              /\ obs'[Len(obs')].kind = "ping"
              /\ obs'[Len(obs')].expectation_id = Cur.id
              /\ \A i \in DOMAIN obs : obs'[i] = obs[i]
              /\ trials' = trials
        /\ pc \notin {"ap_trial", "ap_ping"} =>
              /\ Len(trials') = Len(trials)
              /\ obs' = obs]_vars

\* the Checker has sent a second test, test_interval_s after the ping of the
\* first
C11_Witness ==
    /\ pc = "ap_ping"
    /\ Len(trials) = 2
    /\ trials[2].sent_at - trials[1].sent_at
         = Cur.params_json.test_interval_s

\* C12: POST /observe answers 404 for an unknown expectation and 400 for a
\* kind outside start, end, ping, ack, and leaves every table as it was;
\* for a known expectation (enabled or not) and a valid kind it answers 200
\* and appends exactly one observation of that kind to that expectation,
\* changing nothing else.
C12_ObserveStatus ==
    [][\A p \in Posters :
          LET old == posts[p]
              new == posts'[p]
              known == \E i \in DOMAIN exps : exps[i].id = new.exp_id
              valid == new.kind \in {"start", "end", "ping", "ack"}
          IN  new # old =>
                /\ storeVars' # storeVars => new.code = 200
                /\ (new.pc = "done" /\ ~ known) => new.code = 404
                /\ (new.pc = "done" /\ known /\ ~ valid) => new.code = 400
                /\ (new.pc = "done" /\ known /\ valid) => new.code = 200
                /\ new.pc = "stamped" => (known /\ valid)
                /\ new.code = 200 =>
                      /\ known /\ valid
                      /\ Len(obs') = Len(obs) + 1
                      /\ \A i \in DOMAIN obs : obs'[i] = obs[i]
                      /\ obs'[Len(obs')].expectation_id = new.exp_id
                      /\ obs'[Len(obs')].kind = new.kind
                      /\ <<exps, trials, viols>>' = <<exps, trials, viols>>]_vars

\* one request was answered 404 and another 400 while a third row was stored
\* for a disabled expectation
C12_Witness ==
    /\ \E p \in Posters : posts[p].pc = "done" /\ posts[p].code = 400
    /\ \E p \in Posters : posts[p].pc = "done" /\ posts[p].code = 404
    /\ Len(obs) = 1
    /\ ~ exps[1].is_enabled

\* C13: every observation of the expectation that is stored when
\* _check_schedule reads (so every one whose POST /observe was answered 200
\* before the tick started, the table only growing) is among the rows the
\* tick hands to schedule_evaluate.
C13_VisibleToTick ==
    [][(pc = "dispatch" /\ pc' = "sched_eval") =>
          \A i \in ObsIds(Cur.id) :
              \E k \in DOMAIN cobs' : cobs'[k].id = i]_vars

\* C14: within one expectation the observation ids follow the order of
\* insertion (a row's id is its position in the table) and observed_at is
\* non-decreasing in id order: a row inserted later never carries an earlier
\* timestamp.
C14_ObservedAtMonotonic ==
    \A i, j \in DOMAIN obs :
        (i < j /\ obs[i].expectation_id = obs[j].expectation_id)
            => obs[i].observed_at <= obs[j].observed_at

\* C15: observations are append-only: no step of a request thread or of the
\* Checker changes or removes a stored observation row; the table only
\* grows.
C15_AppendOnly ==
    [][/\ Len(obs') >= Len(obs)
       /\ \A i \in DOMAIN obs : obs'[i] = obs[i]]_vars

\* the table holds a row of POST /observe and a ping of the Checker, and the
\* Checker has gone through a whole pass since
C15_Witness ==
    /\ \E i \in DOMAIN obs : obs[i].kind = "ping"
    /\ \E i \in DOMAIN obs : obs[i].kind = "ack"
    /\ pc = "wait"
    /\ \E i \in DOMAIN trials : trials[i].status = "expired"

\* C16: a violation row that has been closed is never set open again nor
\* changed in any other column; a row the Checker creates, also for a code
\* that has closed rows, is a new row with an id above every stored id.
C16_ClosedStaysClosed ==
    [][/\ Len(viols') >= Len(viols)
       /\ \A j \in DOMAIN viols :
             ~ viols[j].is_open => viols'[j] = viols[j]
       /\ \A j \in DOMAIN viols' \ DOMAIN viols :
             /\ j = Len(viols) + 1
             /\ viols'[j].is_open
             /\ \A i \in DOMAIN viols : viols'[i] = viols[i]]_vars

\* longrun was closed and detected again: its closed row and a newer open
\* row are both stored
C16_Witness ==
    \E i, j \in DOMAIN viols :
        /\ i < j
        /\ viols[i].code = viols[j].code
        /\ viols[i].expectation_id = viols[j].expectation_id
        /\ ~ viols[i].is_open
        /\ viols[j].is_open

\* ids of the expectations of the snapshot of the tick a Checker step
\* belongs to
TickIds ==
    LET rows == IF pc = "wait" THEN snap' ELSE snap
    IN  {rows[k].id : k \in DOMAIN rows}

\* C17: POST /observe for a disabled expectation is answered 200 and appends
\* the observation; a tick takes into its snapshot exactly the expectations
\* enabled when it starts, and no step of a tick creates, closes or marks as
\* notified a violation, or creates or expires a trial, of an expectation
\* that was disabled when the tick started.
C17_DisabledIgnored ==
    [][/\ (posts'["p1"] # posts["p1"] /\ posts'["p1"].pc = "done"
           /\ \E i \in DOMAIN exps :
                 /\ exps[i].id = posts'["p1"].exp_id
                 /\ ~ exps[i].is_enabled
           /\ posts'["p1"].kind \in Kinds) =>
              /\ posts'["p1"].code = 200
              /\ Len(obs') = Len(obs) + 1
              /\ obs'[Len(obs')].expectation_id = posts'["p1"].exp_id
       /\ CheckerStep =>
              \A i \in DOMAIN exps :
                  LET e == exps[i].id
                  IN  /\ pc = "wait" => (e \in TickIds <=> exps[i].is_enabled)
                      /\ e \notin TickIds =>
                            /\ \A j \in DOMAIN viols' :
                                  viols'[j].expectation_id = e
                                     => (j \in DOMAIN viols /\ viols'[j] = viols[j])
                            /\ \A j \in DOMAIN trials' :
                                  trials'[j].expectation_id = e
                                     => (j \in DOMAIN trials
                                         /\ trials'[j] = trials[j])]_vars

\* a tick started with the schedule contract disabled and took nothing into
\* its snapshot, while the job, whose start was answered 200, has been
\* running for longer than max_runtime_s
C17_Witness ==
    /\ pc = "dispatch"
    /\ snap = <<>>
    /\ exps[1].type = "schedule"
    /\ ~ exps[1].is_enabled
    /\ posts["p1"].code = 200
    /\ \E i \in ObsIds(exps[1].id) :
          /\ obs[i].kind = "start"
          /\ now - obs[i].observed_at > exps[1].params_json.max_runtime_s
    /\ \A j \in DOMAIN viols : viols[j].expectation_id # exps[1].id

\* C18: with renotify_after_s > 0, when a tick finds the code of an open
\* violation detected again, the violation's first dispatch having failed
\* (no last_notified_at) at least renotify_after_s before the tick, the
\* Checker goes on to notify that violation again.
C18_RetryAfterFailure ==
    [][(/\ pc = "sched_open"
        /\ tidx <= Len(todo)
        /\ tidx' # tidx \/ pc' # pc
        /\ cfg.renotify_after_s > 0
        /\ OpenViolation(Cur.id, todo[tidx].code) # 0
        /\ LET v == viols[OpenViolation(Cur.id, todo[tidx].code)]
           IN  /\ v.last_notified_at = NULL
               /\ now - v.detected_at >= cfg.renotify_after_s) =>
          /\ pc' = "notify"
          /\ vid' = OpenViolation(Cur.id, todo[tidx].code)]_vars

\* C19: when a code is emitted for a schedule expectation that has an open
\* violation of that code, the Checker creates no row; it does not notify
\* when renotify_after_s = 0 or now - last_notified_at < renotify_after_s; it
\* notifies that violation again when renotify_after_s > 0 and
\* now - last_notified_at > renotify_after_s, and the notice that goes
\* through sets last_notified_at.
C19_RenotifyWindow ==
    [][/\ (/\ pc = "sched_open"
           /\ tidx <= Len(todo)
           /\ tidx' # tidx \/ pc' # pc
           /\ OpenViolation(Cur.id, todo[tidx].code) # 0) =>
              LET openv == OpenViolation(Cur.id, todo[tidx].code)
                  lna == viols[openv].last_notified_at
                  r == cfg.renotify_after_s
              IN  /\ viols' = viols
                  /\ (r = 0 \/ (lna # NULL /\ now - lna < r)) => pc' # "notify"
                  /\ (r > 0 /\ lna # NULL /\ now - lna > r) =>
                        (pc' = "notify" /\ vid' = openv)
       /\ (pc = "notify" /\ pc' = "sched_open") =>
              /\ Len(viols') = Len(viols)
              /\ viols'[vid].last_notified_at = clock
              /\ \A j \in DOMAIN viols : j # vid => viols'[j] = viols[j]]_vars

\* the Checker is notifying again a violation whose last notice is older
\* than renotify_after_s
C19_Witness ==
    /\ pc = "notify"
    /\ vid \in DOMAIN viols
    /\ viols[vid].last_notified_at # NULL
    /\ now - viols[vid].last_notified_at > cfg.renotify_after_s
    /\ cfg.renotify_after_s > 0

\* C20: when the dispatch of a violation's notice raises, the violation row
\* stays stored and open, and no other violation row changes.
C20_NoRollback ==
    [][(pc = "notify" /\ pc' = "wait") =>
          /\ vid \in DOMAIN viols'
          /\ viols'[vid].is_open
          /\ viols' = viols]_vars

\* the Checker is back in its wait after a dispatch that raised: the newest
\* violation is open and was never marked as notified
C20_Witness ==
    /\ pc = "wait"
    /\ viols # <<>>
    /\ viols[Len(viols)].is_open
    /\ viols[Len(viols)].last_notified_at = NULL
----------------------------------------------------------------------------
\* C21: after SIGINT or SIGTERM is delivered while the process is serving,
\* the stop event is set and the HTTP serve loop eventually exits: shutdown
\* completes instead of blocking forever.
C21_ShutdownCompletes ==
    (mainpc = "sig") ~> (stop /\ mainpc = "exited")

\* a step in which the for loop of tick begins evaluating an expectation
BeginsExpectation ==
    /\ pc = "dispatch"
    /\ pc' \in {"sched_eval", "ap_trial", "ap_pending"}

\* C22: once the stop signal is set, the Checker begins evaluating no further
\* expectation, even inside a tick already in progress, and a Checker waiting
\* between ticks exits without running another tick.
C22_StopObserved ==
    [][stop => /\ ~ BeginsExpectation
               /\ (pc = "wait" => pc' \in {"wait", "stopped"})]_vars

\* C23: with min_spacing_s > 0, after a Checker pass spacing is open whenever
\* the newest start began less than min_spacing_s after the newest end
\* preceding it, also while that newest run has not ended yet, and is not
\* open when the gap is at least min_spacing_s.
C23_SpacingIffGapShort ==
    (JustEvaluated
       /\ ParseParams("schedule", Cur.params_json).min_spacing_s > 0) =>
        LET last_start == LastObservationTimeOf(Cur.id, "start")
            ends_before == {i \in ObsIds(Cur.id) :
                              /\ obs[i].kind = "end"
                              /\ obs[i].observed_at < last_start}
        IN  (last_start # NULL /\ ends_before # {}) =>
              LET prev_end == CHOOSE i \in ends_before :
                                \A j \in ends_before :
                                    obs[j].observed_at <= obs[i].observed_at
                  gap == last_start - obs[prev_end].observed_at
              IN  (OpenViolation(Cur.id, "spacing") # 0)
                  <=> gap < ParseParams("schedule", Cur.params_json).min_spacing_s

\* the starts of exp_id before time t with no end at or after them
StartsLeftOpen(exp_id, t) ==
    {i \in ObsIds(exp_id) :
        /\ obs[i].kind = "start"
        /\ obs[i].observed_at < t
        /\ \A j \in ObsIds(exp_id) :
              obs[j].kind = "end" => obs[j].observed_at < obs[i].observed_at}

\* C24: with allow_overlap=false and the newest start having no end at or
\* after it, the evaluation opens overlap iff there is an earlier start that
\* also has no subsequent end; otherwise it closes overlap, so a run that
\* starts after the previous run has ended is not reported as overlapping.
C24_OverlapIffEarlierRunOpen ==
    (JustEvaluated
       /\ ~ ParseParams("schedule", Cur.params_json).allow_overlap) =>
        LET last_start == LastObservationTimeOf(Cur.id, "start")
            last_end == LastObservationTimeOf(Cur.id, "end")
        IN  (last_start # NULL /\ (last_end = NULL \/ last_end < last_start)) =>
              ((OpenViolation(Cur.id, "overlap") # 0)
                 <=> StartsLeftOpen(Cur.id, last_start) # {})

\* C25: a request to /admin/new, /admin/enable or /admin/disable without the
\* exact bearer admin token is answered 401 and leaves every expectation
\* (existence and enabled flag) unchanged.
C25_UnauthorizedRejected ==
    [][(/\ admin'.n # admin.n
        /\ admin'.path \in {"/admin/new", "/admin/enable", "/admin/disable"}
        /\ admin'.auth \notin {"token", "padded"})
         => (admin'.code = 401 /\ exps' = exps)]_vars

\* C26: create_expectation fails and leaves the Store unchanged when the id
\* already exists, expected_interval_s < 60, tolerance_s < 0 or type is
\* outside {schedule, alert_path}; hence every stored expectation satisfies
\* these bounds, and a successful create stores the row enabled with
\* created_at = updated_at.
C26_CreateValidated ==
    [][/\ \A i \in DOMAIN exps' :
            /\ exps'[i].expected_interval_s >= 60
            /\ exps'[i].tolerance_s >= 0
            /\ exps'[i].type \in {"schedule", "alert_path"}
            /\ \A j \in DOMAIN exps' : exps'[j].id = exps'[i].id => j = i
       /\ (admin'.n # admin.n /\ admin'.path = "create_expectation") =>
            LET p == admin'.form
                bad == \/ \E i \in DOMAIN exps : exps[i].id = p.exp_id
                       \/ p.expected_interval_s < 60
                       \/ p.tolerance_s < 0
                       \/ p.exp_type \notin {"schedule", "alert_path"}
            IN  IF bad
                THEN /\ admin'.raised
                     /\ UNCHANGED <<storeVars, audit>>
                ELSE /\ ~ admin'.raised
                     /\ Len(exps') = Len(exps) + 1
                     /\ SubSeq(exps', 1, Len(exps)) = exps
                     /\ exps'[Len(exps')].id = p.exp_id
                     /\ exps'[Len(exps')].is_enabled
                     /\ audit'[p.exp_id].created_at = audit'[p.exp_id].updated_at
                     /\ UNCHANGED <<obs, trials, viols>>]_vars

\* a call under the id of a stored expectation, valid otherwise, was refused
\* some time after the expectation was created
C26_Witness ==
    /\ admin.path = "create_expectation"
    /\ admin.raised
    /\ admin.form.expected_interval_s >= 60
    /\ admin.form.tolerance_s >= 0
    /\ admin.form.exp_type \in Types
    /\ \E i \in DOMAIN exps :
        /\ exps[i].id = admin.form.exp_id
        /\ exps[i].is_enabled

\* the codes a step of the Checker hands to close_violations, for a
\* schedule and for an alert_path expectation
ClosingCodes ==
    IF pc = "sched_close" THEN {closeCodes[k] : k \in 1..Len(closeCodes)}
    ELSE {"no_ack"}

\* a step in which the Checker calls close_violations(Cur.id, ClosingCodes)
ClosingStep ==
    \/ pc = "sched_close" /\ pc' = "sched_open"
    \/ pc = "ap_loop" /\ pidx > Len(pend) /\ pc' = "dispatch"

\* C27: after create_violation(exp, code) open_violation(exp, code) returns
\* that row; close_violations(exp, codes) closes every open row of exp whose
\* code is in codes, returns how many it closed, leaves rows of other codes
\* and other expectations unchanged, and afterwards open_violation(exp, c)
\* returns nothing for each c in codes.
C27_ViolationRoundTrip ==
    [][/\ \A e \in {exps[i].id : i \in DOMAIN exps}, c \in Codes :
            (/\ Len(viols') = Len(viols) + 1
             /\ viols'[Len(viols')].expectation_id = e
             /\ viols'[Len(viols')].code = c)
              => OpenViolation(e, c)' = Len(viols) + 1
       /\ ClosingStep =>
            /\ Len(viols') = Len(viols)
            /\ \A i \in DOMAIN viols :
                 IF /\ viols[i].expectation_id = Cur.id
                    /\ viols[i].code \in ClosingCodes
                 THEN /\ ~ viols'[i].is_open
                      /\ [viols'[i] EXCEPT !.is_open = viols[i].is_open]
                           = viols[i]
                 ELSE viols'[i] = viols[i]
            /\ CloseViolationsCount(Cur.id, ClosingCodes)
                 = Cardinality({i \in DOMAIN viols :
                                    viols[i].is_open /\ ~ viols'[i].is_open})
            /\ \A e \in {Cur.id}, c \in ClosingCodes :
                 OpenViolation(e, c)' = 0]_vars

\* close_violations has closed the no_ack row of one expectation and left
\* the open row of the other expectation as it was
C27_Witness ==
    /\ pc = "dispatch"
    /\ \E i, j \in DOMAIN viols :
        /\ viols[i].code = "no_ack" /\ ~ viols[i].is_open
        /\ viols[j].expectation_id # viols[i].expectation_id
        /\ viols[j].is_open
        /\ OpenViolation(viols[j].expectation_id, viols[j].code) = j
        /\ OpenViolation(viols[i].expectation_id, "no_ack") = 0

\* C28: a no_ack violation is created only for a trial that the Checker
\* itself moved from pending to expired: under any interleaving of GET /ack
\* with the Checker pass, a trial whose status is acked when the Checker
\* calls expire_trial never yields a no_ack violation.
C28_NoAckOnlyForMoved ==
    [][(pc = "ap_viol" /\ Len(viols') = Len(viols) + 1)
         => movedTrial = pend[pidx]]_vars

\* the open rows of the violations table that share expectation and code
\* with row i
OpenLike(i) ==
    {j \in DOMAIN viols : /\ j # i
                          /\ viols[j].is_open
                          /\ viols[j].expectation_id = viols[i].expectation_id
                          /\ viols[j].code = viols[i].code}

\* C29: with two Checker instances ticking concurrently against the same
\* Store, a state with two open violation rows for the same
\* (expectation_id, code) is reachable through the look-up-then-create
\* sequence: a row is added beside an open row of its code only by an
\* instance whose look-up came before that row was created, and never are
\* there more such rows than instances.
C29_TwoOpenByRace ==
    [][/\ (Len(viols') = Len(viols) + 1) =>
            \A j \in DOMAIN viols :
                (/\ viols[j].is_open
                 /\ viols[j].expectation_id = viols'[Len(viols')].expectation_id
                 /\ viols[j].code = viols'[Len(viols')].code)
                  => (twin.pc = "create" /\ twin.openv = 0 /\ j > twin.seen)
       /\ \A i \in DOMAIN viols' :
            viols'[i].is_open =>
              Cardinality({j \in DOMAIN viols' :
                             /\ viols'[j].is_open
                             /\ viols'[j].expectation_id = viols'[i].expectation_id
                             /\ viols'[j].code = viols'[i].code}) <= 2]_vars

\* two open rows of one expectation and code
C29_Witness ==
    \E i \in DOMAIN viols : viols[i].is_open /\ OpenLike(i) # {}

\* C30: for any trial and any interleaving of concurrent GET /ack requests
\* for it, at most one ack_trial call returns true and acked_at is written
\* once: a call that returns true (and writes acked_at) never does so for a
\* trial an earlier call has already acknowledged.
C30_OneAckWins ==
    [][\A a \in AckPair :
         (acks[a].pc = "selected" /\ acks'[a].pc = "done" /\ acks'[a].ret)
           => trials[acks[a].trial].status # "acked"]_vars

\* the codes of a list of violations
CodesOf(violations) == {violations[k].code : k \in DOMAIN violations}

\* the codes of a list of codes
CodeSet(codes) == {codes[k] : k \in DOMAIN codes}

\* C31: evaluating a schedule expectation over only the most recent 80
\* observations, as the Checker does, yields the same codes to open and to
\* close as evaluating over its full observation history.
C31_WindowSuffices ==
    (pc \in {"sched_close", "sched_open"}
       /\ cobs = RecentObservations(Cur.id, ObsLimit)) =>
        LET full == ScheduleEvaluate(Cur, RecentObservations(Cur.id, Len(obs)),
                                     evalT)
        IN  /\ CodesOf(todo) = CodesOf(full.violations)
            /\ CodeSet(closeCodes) = CodeSet(full.close_codes)

\* the time of the newest synthetic test of exp_id: the later of the sent_at
\* of its trial and the observed_at of its ping (NULL: none was sent)
LastTestAt(exp_id) ==
    LET ts == {trials[i].sent_at :
                 i \in {j \in DOMAIN trials : trials[j].expectation_id = exp_id}}
              \cup {obs[i].observed_at :
                      i \in {j \in ObsIds(exp_id) : obs[j].kind = "ping"}}
    IN  IF \A i \in DOMAIN trials : trials[i].expectation_id # exp_id
        THEN NULL
        ELSE CHOOSE t \in ts : \A u \in ts : u <= t

C33_OverdueTrialsExpire ==
    [][(pc = "ap_loop" /\ pc' = "dispatch") =>
         \A i \in DOMAIN trials' :
            (/\ trials'[i].expectation_id = Cur.id
             /\ AckWindowExceeded(Cur, now - trials'[i].sent_at))
              => trials'[i].status # "pending"]_vars

\* a pass has expired a trial nobody acknowledged
C33_Witness ==
    /\ pc = "dispatch"
    /\ idx > 1
    /\ snap[idx - 1].type = "alert_path"
    /\ \E i \in DOMAIN trials :
          /\ trials[i].status = "expired"
          /\ trials[i].acked_at = NULL
          /\ AckWindowExceeded(snap[idx - 1], now - trials[i].sent_at)

\* schedule_evaluate has just returned to _check_schedule: todo holds its
\* violations and closeCodes its codes to close, for the rows cobs at evalT
Evaluated == pc \in {"sched_close", "sched_open"}

\* C34: the codes schedule_evaluate returns to open and the codes it returns
\* to close are disjoint, and no code occurs twice among the opened ones.
C34_OpenCloseDisjoint ==
    Evaluated =>
        /\ CodesOf(todo) \cap CodeSet(closeCodes) = {}
        /\ \A j, k \in DOMAIN todo : todo[j].code = todo[k].code => j = k

\* an evaluation that opens two codes and closes another
C34_Witness ==
    /\ Evaluated
    /\ Len(todo) >= 2
    /\ closeCodes # <<>>

\* the newest start of the beacon log of exp_id has an end at or after it
JobCompleted(exp_id) ==
    LET last_start == LastObservationTimeOf(exp_id, "start")
        last_end == LastObservationTimeOf(exp_id, "end")
    IN  last_start # NULL /\ last_end # NULL /\ last_end >= last_start

\* C35: when the newest start has an end at or after it, schedule_evaluate
\* opens neither longrun nor overlap and returns both as codes to close, so
\* a Checker pass after the end leaves no longrun and no overlap open.
C35_CompletedJobCloses ==
    /\ (Evaluated /\ cobs = RecentObservations(Cur.id, ObsLimit)
          /\ JobCompleted(Cur.id)) =>
            /\ CodesOf(todo) \cap {"longrun", "overlap"} = {}
            /\ {"longrun", "overlap"} \subseteq CodeSet(closeCodes)
    /\ (JustEvaluated /\ JobCompleted(Cur.id)) =>
            /\ OpenViolation(Cur.id, "longrun") = 0
            /\ OpenViolation(Cur.id, "overlap") = 0

\* the rows of kind "end" among rows whose observed_at is before t
EndsBefore(rows, t) ==
    {k \in DOMAIN rows : rows[k].kind = "end" /\ rows[k].observed_at < t}

\* the newest start among rows (NULL: none)
NewestStart(rows) ==
    LET ks == {k \in DOMAIN rows : rows[k].kind = "start"}
    IN  IF ks = {} THEN NULL
        ELSE LET k == CHOOSE k \in ks :
                        \A j \in ks : rows[j].observed_at <= rows[k].observed_at
             IN  rows[k].observed_at

\* the rows schedule_evaluate was given hold an end at or after their
\* newest start
CompletedIn(rows) ==
    /\ NewestStart(rows) # NULL
    /\ \E k \in DOMAIN rows :
          rows[k].kind = "end" /\ rows[k].observed_at >= NewestStart(rows)

\* C36: when the newest start has an end at or after it, min_spacing_s > 0
\* and an end exists strictly before that start, schedule_evaluate opens
\* spacing iff (start time - time of the newest such earlier end) <
\* min_spacing_s, and otherwise returns spacing as a code to close.
C36_SpacingAfterCompletion ==
    (/\ Evaluated
     /\ CompletedIn(cobs)
     /\ ParseParams("schedule", Cur.params_json).min_spacing_s > 0
     /\ EndsBefore(cobs, NewestStart(cobs)) # {}) =>
        LET ends == EndsBefore(cobs, NewestStart(cobs))
            prev == CHOOSE k \in ends :
                       \A j \in ends : cobs[j].observed_at <= cobs[k].observed_at
            gap == NewestStart(cobs) - cobs[prev].observed_at
            short == gap < ParseParams("schedule", Cur.params_json).min_spacing_s
        IN  /\ "spacing" \in CodesOf(todo) <=> short
            /\ "spacing" \in CodeSet(closeCodes) <=> ~ short

\* spacing opened for a completed run
C36_Witness ==
    /\ Evaluated
    /\ CompletedIn(cobs)
    /\ "spacing" \in CodesOf(todo)

\* C37: a disabled constraint never opens its code: schedule_evaluate never
\* opens longrun when max_runtime_s = 0, never opens spacing when
\* min_spacing_s = 0 and never opens overlap when allow_overlap = true,
\* missing params counting as 0 and false.
C37_DisabledNeverOpens ==
    Evaluated =>
        LET params_json == Cur.params_json
            max_runtime_s == IF "max_runtime_s" \in DOMAIN params_json
                             THEN params_json.max_runtime_s ELSE 0
            min_spacing_s == IF "min_spacing_s" \in DOMAIN params_json
                             THEN params_json.min_spacing_s ELSE 0
            allow_overlap == IF "allow_overlap" \in DOMAIN params_json
                             THEN params_json.allow_overlap ELSE FALSE
        IN  /\ max_runtime_s = 0 => "longrun" \notin CodesOf(todo)
            /\ min_spacing_s = 0 => "spacing" \notin CodesOf(todo)
            /\ allow_overlap => "overlap" \notin CodesOf(todo)

\* a contract that allows overlap is evaluated on a log whose two newest
\* starts differ and have no end after them
C37_Witness ==
    /\ Evaluated
    /\ "allow_overlap" \in DOMAIN Cur.params_json
    /\ Cur.params_json.allow_overlap
    /\ ~ CompletedIn(cobs)
    /\ \E j, k \in DOMAIN cobs :
          /\ cobs[j].kind = "start" /\ cobs[k].kind = "start"
          /\ cobs[j].observed_at < cobs[k].observed_at

\* row r of a result of recent_observations comes before row q: newer
\* observed_at, or the same observed_at and the larger seq
Newer(r, q) ==
    \/ r.observed_at > q.observed_at
    \/ r.observed_at = q.observed_at /\ r.id > q.id

C39_FailedTickRetried ==
    /\ [](pc = "stopped" => stop)
    /\ (pc = "wait" /\ ~ stop) ~> (pc = "dispatch" \/ stop)

\* a tick is running after a tick that left a violation without its notice,
\* as only an exception of the dispatch does
C39_Witness ==
    /\ pc = "dispatch"
    /\ ~ stop
    /\ \E i \in DOMAIN viols : viols[i].last_notified_at = NULL

====
